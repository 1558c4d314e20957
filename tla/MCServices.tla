----------------------------- MODULE MCServices -----------------------------
(* The instance of Services for TLC: two tags of which one begins like the *)
(* other, as <tool> and <tool_call> do.                                    *)
EXTENDS Services

ShortAndLong == <<<<"<", "a", ">">>, <<"<", "a", "b", ">">>>>
=============================================================================

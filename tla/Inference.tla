----------------------------- MODULE Inference -----------------------------
(* The client of the models (services/inference_client.py): the shared     *)
(* session, the dispatch to a provider, and the stream of an answer, from  *)
(* which the tags of tool calls are taken out although they come in pieces.*)
EXTENDS Naturals, SequencesExt, FiniteSetsExt

CONSTANTS
  Configured,   \* providers with stored credentials
  Chars,        \* the characters of an answer, "<" and ">" among them
  Tags,         \* SUPPRESSION_TAGS: a sequence of sequences of them
  MaxPiece, MaxText

Providers == {"ollama", "openai", "anthropic", "gemini"}

Kinds == {"complete", "chat", "embed"}

VARIABLES
  session,    \* _SESSION: "none", "open", "closing", "closed"
  leaked,     \* a session was dropped that nobody closes
  call,       \* the call under way: its kind and provider, and where it is
  text,       \* what the model has written
  buffer,     \* held back, as it may be the start of a tag
  out,        \* what the caller was given
  outcome     \* how the last call ended

inference == <<session, leaked, call, text, buffer, out, outcome>>

Idle == [kind |-> "none", provider |-> "none", at |-> "idle"]

Init ==
  /\ session = "none" /\ leaked = FALSE
  /\ call = Idle
  /\ text = << >> /\ buffer = << >> /\ out = << >>
  /\ outcome = "none"

Places(s, tag) ==
  {i \in 1 .. Len(s) : i + Len(tag) - 1 <= Len(s) /\ SubSeq(s, i, i + Len(tag) - 1) = tag}

Cut(s, i, tag) == SubSeq(s, 1, i - 1) \o SubSeq(s, i + Len(tag), Len(s))

Occurs(s) == \E k \in 1 .. Len(Tags) : Places(s, Tags[k]) # {}

(* str.replace, from left to right: it does not look again at what it has  *)
(* joined.                                                                 *)
Replace(s, tag) ==
  LET scan[k \in 0 .. Len(s)] ==
        IF k = 0 THEN [text |-> s, from |-> 1]
        ELSE LET ahead == {i \in Places(scan[k - 1].text, tag) : i >= scan[k - 1].from}
             IN IF ahead = {} THEN scan[k - 1]
                ELSE [text |-> Cut(scan[k - 1].text, Min(ahead), tag), from |-> Min(ahead)]
  IN scan[Len(s)].text

(* One pass over the tags in their order.                                  *)
Suppressed(s) ==
  LET after[k \in 0 .. Len(Tags)] == IF k = 0 THEN s ELSE Replace(after[k - 1], Tags[k])
  IN after[Len(Tags)]

(* possible_start: the rest from the last "<" on begins a tag.             *)
PossibleStart(s) ==
  \E i \in 1 .. Len(s) :
    /\ s[i] = "<" /\ \A j \in i + 1 .. Len(s) : s[j] # "<"
    /\ \E k \in 1 .. Len(Tags) : IsPrefix(SubSeq(s, i, Len(s)), Tags[k])

-----------------------------------------------------------------------------
Ends(how) ==
  /\ outcome' = how
  /\ call' = Idle

(* The key is looked for before a request is made, but not for embeddings. *)
NoKey(kind, provider) ==
  kind # "embed" /\ provider # "ollama" /\ provider \notin Configured

(* The dispatch: embeddings have no provider of their own at Anthropic.    *)
(* _get_session opens a session if there is none, or if it is being closed.*)
Ask ==
  \E kind \in Kinds, p \in Providers :
    LET provider == IF kind = "embed" /\ p = "anthropic" THEN "ollama" ELSE p
    IN /\ call = Idle
       /\ text' = << >> /\ buffer' = << >> /\ out' = << >>
       /\ IF NoKey(kind, provider)
          THEN Ends("no key") /\ UNCHANGED session
          ELSE /\ call' = [kind |-> kind, provider |-> provider, at |-> "posted"]
               /\ session' = IF session = "closing" THEN "reopened" ELSE "open"
               /\ outcome' = "none"
       /\ UNCHANGED <<leaked>>

(* raise_for_status; a model that is missing has an error of its own at    *)
(* Ollama, for answers.                                                    *)
Refused ==
  /\ call.at = "posted"
  /\ \E status \in {"404", "error", "no connection"} :
       Ends(IF status = "404" /\ call.provider = "ollama" /\ call.kind # "embed"
            THEN "model missing" ELSE status)
  /\ UNCHANGED <<session, leaked, text, buffer, out>>

(* A timeout, or a connection that is lost in the stream.  The timeout of  *)
(* chat at Ollama is not raised: it reads as an answer, a failed verdict.  *)
TimedOut ==
  /\ call.at # "idle"
  /\ IF call.kind = "chat" /\ call.provider = "ollama"
     THEN Ends("answer") /\ out' = <<"verdict: fail">>
     ELSE Ends("timeout") /\ UNCHANGED out
  /\ UNCHANGED <<session, leaked, text, buffer>>

(* The answer of chat in one piece, with the tool calls found in it; the   *)
(* vector of a text.                                                       *)
Whole ==
  /\ call.at = "posted" /\ call.kind = "chat"
  /\ Ends("answer")
  /\ UNCHANGED <<session, leaked, text, buffer, out>>

Embedded ==
  /\ call.at = "posted" /\ call.kind = "embed"
  /\ Ends("answer")
  /\ UNCHANGED <<session, leaked, text, buffer, out>>

Streams ==
  /\ call.at = "posted" /\ call.kind = "complete"
  /\ call' = [call EXCEPT !.at = "streaming"]
  /\ UNCHANGED <<session, leaked, text, buffer, out, outcome>>

(* One line of the stream, of Ollama and of the others; lines that cannot  *)
(* be decoded are left out.                                                *)
Piece ==
  \E n \in 1 .. MaxPiece : \E piece \in [1 .. n -> Chars] :
    LET held == buffer \o piece
        rest == Suppressed(held)
    IN /\ call.at = "streaming" /\ call.provider = "ollama"
       /\ Len(text) + n <= MaxText
       /\ text' = text \o piece
       /\ IF PossibleStart(rest) /\ ~Occurs(held)
          THEN buffer' = rest /\ UNCHANGED out
          ELSE out' = out \o rest /\ buffer' = << >>
       /\ UNCHANGED <<session, leaked, call, outcome>>

Delta ==
  \E n \in 1 .. MaxPiece : \E piece \in [1 .. n -> Chars] :
    /\ call.at = "streaming" /\ call.provider # "ollama"
    /\ Len(text) + n <= MaxText
    /\ text' = text \o piece
    /\ out' = out \o piece
    /\ UNCHANGED <<session, leaked, call, buffer, outcome>>

StreamEnds_Held ==    \* mutant: what was held back is forgotten
  /\ call.at = "streaming"
  /\ buffer' = << >>
  /\ Ends("answer")
  /\ UNCHANGED <<session, leaked, text, out>>

(* The end of the stream, with the last line of an answer or without it:   *)
(* what was held back is no tag.                                           *)
StreamEnds ==
  /\ call.at = "streaming"
  /\ out' = out \o Suppressed(buffer)
  /\ buffer' = << >>
  /\ Ends("answer")
  /\ UNCHANGED <<session, leaked, text>>

(* close_session waits for the session to close before it forgets it, and  *)
(* forgets one that was opened meanwhile.                                  *)
Close ==
  /\ session = "open"
  /\ session' = "closing"
  /\ UNCHANGED <<leaked, call, text, buffer, out, outcome>>

Closed ==
  /\ session \in {"closing", "reopened"}
  /\ leaked' = (leaked \/ session = "reopened")
  /\ session' = "none"
  /\ UNCHANGED <<call, text, buffer, out, outcome>>

Next ==
  \/ Ask \/ Refused \/ TimedOut \/ Whole \/ Embedded
  \/ Streams \/ Piece \/ Delta \/ StreamEnds
  \/ Close \/ Closed

Spec == Init /\ [][Next]_inference

-----------------------------------------------------------------------------
(* What is left of a text when tags are taken out of it, one after the     *)
(* other: none, some or all of those it has, and of those that come about. *)
Shorter(s) == UNION {{Cut(s, i, Tags[k]) : i \in Places(s, Tags[k])} : k \in 1 .. Len(Tags)}

Remainders(s) ==
  LET less[k \in 0 .. Len(s)] ==
        IF k = 0 THEN {s} ELSE less[k - 1] \cup UNION {Shorter(u) : u \in less[k - 1]}
  IN less[Len(s)]

(* However an answer is cut into pieces, nothing but tags is taken out of  *)
(* it, nothing is repeated, and the order stays: what the caller has and   *)
(* what is held back are what the model wrote less some tags, and in the   *)
(* end nothing is held back.                                               *)
StreamKept ==
  /\ call.at = "streaming" => out \o buffer \in Remainders(text)
  /\ outcome = "answer" /\ text # << >> => out \in Remainders(text)
=============================================================================

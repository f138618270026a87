--------------------------- MODULE ModeratorLine ---------------------------
(***************************************************************************)
(* What the Gemini proxy promises about the connections of a conversation, *)
(* and no more: one is dialled when the one before it is closed, so that   *)
(* there never are two; at most MaxRedials are dialled after the first;    *)
(* and when the proxy has hung up, nothing is open or will be.             *)
(***************************************************************************)
EXTENDS Naturals, Sequences

CONSTANT MaxRedials

VARIABLES line,     \* the connections dialled so far
          hungUp    \* close_session is through

lvars == <<line, hungUp>>

Init == line = <<>> /\ hungUp = FALSE

Dial ==
  /\ ~hungUp /\ Len(line) <= MaxRedials
  /\ line' = Append([l \in DOMAIN line |-> "closed"], "opening")
  /\ UNCHANGED hungUp

Answer(l) ==
  /\ ~hungUp /\ line[l] = "opening"
  /\ line' = [line EXCEPT ![l] = "open"]
  /\ UNCHANGED hungUp

Die(l) ==
  /\ line[l] = "open"
  /\ line' = [line EXCEPT ![l] = "dead"]
  /\ UNCHANGED hungUp

Close(l) ==
  /\ line' = [line EXCEPT ![l] = "closed"]
  /\ UNCHANGED hungUp

(* A connection that is being opened may still be; it is never answered.   *)
HangUp ==
  /\ ~hungUp /\ hungUp' = TRUE
  /\ line' = [l \in DOMAIN line |-> IF line[l] = "opening" THEN "opening" ELSE "closed"]

Next ==
  \/ Dial \/ HangUp
  \/ \E l \in DOMAIN line : Answer(l) \/ Die(l) \/ Close(l)

Spec == Init /\ [][Next]_lvars
=============================================================================

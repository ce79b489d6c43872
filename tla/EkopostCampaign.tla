-------------------------- MODULE EkopostCampaign ---------------------------
(***************************************************************************)
(* A campaign of letters at Ekopost (account_invoice_send_ekopost,         *)
(* _ekopost_post_pdfs): a chain of HTTP calls, each of which is answered,  *)
(* refused, or carried out although its answer never arrives.  A campaign  *)
(* is a record of the call that is next and of what the service holds.     *)
(***************************************************************************)
EXTENDS Naturals

CONSTANT CloseAtOnce   \* the system parameter ekopost.close

Answers == {"ok", "refused", "lost"}

Campaigns(max) ==
    [letters : 1..max,
     call    : {"create", "envelope", "content", "seal", "cancel", "close", "posted", "failed"},
     server  : {"none", "open", "cancelled", "closed"},
     sealed  : 0..max,
     loose   : BOOLEAN]    \* an envelope that is not sealed yet

NewCampaign(n) ==
    [letters |-> n, call |-> "create", server |-> "none", sealed |-> 0, loose |-> FALSE]

Underway(c) == c.call \notin {"posted", "failed"}

\* What a call does at Ekopost, external.
Effect(c) ==
    CASE c.call = "create"   -> [c EXCEPT !.server = "open"]
      [] c.call = "envelope" -> [c EXCEPT !.loose = TRUE]
      [] c.call = "content"  -> c
      [] c.call = "seal"     -> [c EXCEPT !.loose = FALSE, !.sealed = @ + 1]
      [] c.call = "cancel"   -> [c EXCEPT !.server = "cancelled"]
      [] c.call = "close"    -> [c EXCEPT !.server = "closed"]

AllSealed(c) == c.sealed = c.letters

\* The call that follows an answer, d being the campaign after the call.
Following(d) ==
    CASE d.call = "create"   -> "envelope"
      [] d.call = "envelope" -> "content"
      [] d.call = "content"  -> "seal"
      [] d.call = "seal"     -> IF ~AllSealed(d) THEN "envelope"
                                ELSE IF CloseAtOnce THEN "close" ELSE "posted"
      [] d.call = "cancel"   -> "failed"
      [] d.call = "close"    -> "posted"

\* Mutant: a call that fails while the letters are put in leaves the loop and not
\* the function, and the campaign is closed as it is.
CloseOnError(c) ==
    IF c.call \in {"envelope", "content", "seal"} THEN "close" ELSE "failed"

\* The call that follows an error: the campaign is cancelled, but for an error of
\* create, cancel or close itself.
OnError(c) ==
    IF c.call \in {"envelope", "content", "seal"} THEN "cancel" ELSE "failed"

Answered(c, answer) ==
    LET d == IF answer = "refused" THEN c ELSE Effect(c)
    IN  [d EXCEPT !.call = IF answer = "ok" THEN Following(d) ELSE OnError(c)]

\* Letters that will be printed.
Printed(c) == c.server = "closed"
=============================================================================

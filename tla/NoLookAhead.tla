---------------------------- MODULE NoLookAhead ----------------------------
(***************************************************************************)
(* What a sandboxed execution promises, whatever process runs the          *)
(* candidate: a bar is revealed only when a portfolio has been fixed for   *)
(* every bar revealed before it, a fixed portfolio is never revised, and   *)
(* an execution is complete only when every bar has its portfolio.         *)
(* ADR 0001 calls this the lockstep rule; ADR 0002 relies on it when it    *)
(* withholds the outcome row of a window.                                  *)
(***************************************************************************)
EXTENDS Naturals, Sequences

CONSTANT NumBars            \* Len(SandboxRequest.bars)

VARIABLES
  revealed,   \* bars the trusted side has written to the candidate
  fixed,      \* portfolios it has accepted, one record per bar, in order
  verdict     \* "open", then "complete" or "failed"

promised == <<revealed, fixed, verdict>>

Init ==
  /\ revealed = 0
  /\ fixed = <<>>
  /\ verdict = "open"

(* The next bar is shown only when nothing shown before is still open.     *)
Reveal ==
  /\ verdict = "open"
  /\ revealed < NumBars
  /\ revealed = Len(fixed)
  /\ revealed' = revealed + 1
  /\ UNCHANGED <<fixed, verdict>>

(* A portfolio is fixed for the bar last shown.  "after" is how many bars  *)
(* the candidate had been handed when it wrote the portfolio: never more   *)
(* than have been revealed.                                                *)
Fix ==
  /\ verdict = "open"
  /\ Len(fixed) < revealed
  /\ \E after \in 0..revealed :
       fixed' = Append(fixed, [sequence |-> Len(fixed), after |-> after])
  /\ UNCHANGED <<revealed, verdict>>

Conclude ==
  /\ verdict = "open"
  /\ \/ verdict' = "failed"
     \/ verdict' = "complete" /\ Len(fixed) = NumBars
  /\ UNCHANGED <<revealed, fixed>>

Next == Reveal \/ Fix \/ Conclude

Spec == Init /\ [][Next]_promised
=============================================================================

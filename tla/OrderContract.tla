---------------------------- MODULE OrderContract ----------------------------
(***************************************************************************)
(* What an order promises, whoever acts on it and in whatever order: it is *)
(* opened once, paid at most once and by one payment, never becomes unpaid *)
(* again, and once closed it only ever disappears.  Orders implements it   *)
(* (ImplementsContract); payment proofs, the wallet, crypto deposits and   *)
(* staff are all just payers here.                                         *)
(***************************************************************************)
CONSTANTS Orders, Payers, Nobody

VARIABLES phase,   \* none, open, paid, closed or erased
          payer    \* the payment that settled the order, Nobody until one has

vars == <<phase, payer>>

Phases == {"none", "open", "paid", "closed", "erased"}

Init ==
  /\ phase = [o \in Orders |-> "none"]
  /\ payer = [o \in Orders |-> Nobody]

Open(o) ==
  /\ phase[o] = "none"
  /\ phase' = [phase EXCEPT ![o] = "open"]
  /\ UNCHANGED payer

\* From "none" when the checkout pays in the transaction that opens the order.
Pay(o, p) ==
  /\ phase[o] \in {"none", "open"}
  /\ payer[o] = Nobody
  /\ phase' = [phase EXCEPT ![o] = "paid"]
  /\ payer' = [payer EXCEPT ![o] = p]

\* A cancellation before payment, or a refund or a lost dispute after it.
Close(o) ==
  /\ phase[o] \in {"open", "paid"}
  /\ phase' = [phase EXCEPT ![o] = "closed"]
  /\ UNCHANGED payer

\* The row goes, and with it what it said of the payment.
Erase(o) ==
  /\ phase[o] \in {"open", "paid", "closed"}
  /\ phase' = [phase EXCEPT ![o] = "erased"]
  /\ payer' = [payer EXCEPT ![o] = Nobody]

Next ==
  \E o \in Orders :
    Open(o) \/ (\E p \in Payers : Pay(o, p)) \/ Close(o) \/ Erase(o)

Spec == Init /\ [][Next]_vars
=============================================================================

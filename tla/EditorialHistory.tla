-------------------------- MODULE EditorialHistory --------------------------
(***************************************************************************)
(* What the Telegram publication workflow promises a reader of the public  *)
(* wire, with no lock, file, preview or clock: each lead has a history of  *)
(* versions that only grows, the first one active, a withdrawal the last;  *)
(* and the wire shows a beginning of that history that never gets shorter, *)
(* until the lead leaves the wire.                                         *)
(***************************************************************************)
EXTENDS Naturals, Sequences

CONSTANTS Leads, Headlines

VARIABLES
    committed,      \* the versions of each lead the editors committed
    public          \* the versions a reader of the wire can reconstruct

vars == <<committed, public>>

Version(s, h) == [status |-> s, headline |-> h]

Latest(versions) == versions[Len(versions)]

IsBeginningOf(s, t) == Len(s) <= Len(t) /\ s = SubSeq(t, 1, Len(s))

Init ==
    /\ committed = [l \in Leads |-> <<>>]
    /\ public = [l \in Leads |-> <<>>]

Approve(l) ==
    /\ committed[l] = <<>>
    /\ \E h \in Headlines :
          committed' = [committed EXCEPT ![l] = <<Version("active", h)>>]
    /\ UNCHANGED public

Correct(l) ==
    /\ committed[l] # <<>>
    /\ Latest(committed[l]).status # "withdrawn"
    /\ \E h \in Headlines \ {Latest(committed[l]).headline} :
          committed' = [committed EXCEPT ![l] = Append(@, Version("corrected", h))]
    /\ UNCHANGED public

Withdraw(l) ==
    /\ committed[l] # <<>>
    /\ Latest(committed[l]).status # "withdrawn"
    /\ committed' = [committed EXCEPT ![l] =
                        Append(@, Version("withdrawn", Latest(@).headline))]
    /\ UNCHANGED public

\* One staging may release several leads and drop others.
Stage ==
    /\ \A l \in Leads :
          \/ public'[l] = <<>>
          \/ IsBeginningOf(public[l], public'[l]) /\ IsBeginningOf(public'[l], committed[l])
    /\ public' = [l \in Leads |-> public'[l]]
    /\ UNCHANGED committed

Next ==
    \/ \E l \in Leads : Approve(l) \/ Correct(l) \/ Withdraw(l)
    \/ Stage

Spec == Init /\ [][Next]_vars
=============================================================================

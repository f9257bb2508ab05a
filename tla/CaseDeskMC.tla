---------------------------- MODULE CaseDeskMC ----------------------------
(* Small instances of CaseDesk for TLC. *)
EXTENDS CaseDesk, TLC

CONSTANTS s1, s2, x1, t1

HandlerSymmetry == Permutations(Handlers)

MCSourceOf == [x \in Items |-> s1]

Edit(c) == [text |-> t1, confidence |-> c, complete |-> TRUE]

MCEditOne == {Edit("unverified")}
MCEditTwo == {Edit("unverified"), Edit("corroborated")}

Review(human) == [recorded |-> TRUE, human_approved |-> human,
                  checklist |-> TRUE, primary_evidence_checked |-> FALSE]

MCReviewOne == {Review(TRUE)}
MCReviewTwo == {Review(TRUE), Review(FALSE)}
============================================================================

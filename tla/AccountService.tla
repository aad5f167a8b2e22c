-------------------------- MODULE AccountService --------------------------
(***************************************************************************)
(* What a caller of the BOSS interface may assume of an account, if nobody *)
(* else writes it: it is opened, closed, and changed one property at a     *)
(* time.                                                                   *)
(***************************************************************************)
CONSTANTS Account, Value, NoRow

VARIABLE acct

Record == [pwd : Value, profile : Value, frozen : BOOLEAN]

Init == acct \in [Account -> Record \cup {NoRow}]

Open(a) ==
    /\ acct[a] = NoRow
    /\ \E r \in Record : ~r.frozen /\ acct' = [acct EXCEPT ![a] = r]

Close(a) ==
    /\ acct[a] # NoRow
    /\ acct' = [acct EXCEPT ![a] = NoRow]

Change(a) ==
    /\ acct[a] # NoRow
    /\ \/ \E v \in Value : acct' = [acct EXCEPT ![a].pwd = v]
       \/ \E v \in Value : acct' = [acct EXCEPT ![a].profile = v]
       \/ \E b \in BOOLEAN : acct' = [acct EXCEPT ![a].frozen = b]

Next == \E a \in Account : Open(a) \/ Close(a) \/ Change(a)

Spec == Init /\ [][Next]_acct
=============================================================================

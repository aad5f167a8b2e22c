------------------------- MODULE AdministrationProofs ------------------------
(***************************************************************************)
(* Theorems about what administers the system, for every value of the      *)
(* constants: BossBridge, with any accounts, any number of SOAP calls at   *)
(* once and any faults, Maintenance and Sidebar.                           *)
(***************************************************************************)
EXTENDS BossBridge, Maintenance, Sidebar, SequenceTheorems, FiniteSetTheorems, TLAPS

\* Under way, a call has its parameters, has not returned, and counts requests
\* within what its method sends; a handler that writes a row back has read one.
CallOK(k) ==
    k.at # "idle" =>
        /\ k.list # <<>>
        /\ k.arg \in Args(k.method)
        /\ k.result = "none"
        /\ k.pos >= 1
        /\ k.method = "IpoeRegister" => k.pos <= Len(k.list)
        /\ k.method = "Register" => Len(k.list) = 1
        /\ k.method \in Changers /\ k.pos = 2 => k.seen # NoRow

BossTypeInv == TypeOK /\ \A c \in Call : CallOK(call[c])

LEMMA ArgsType ==
    ASSUME NEW m \in Methods
    PROVE  /\ Args(m) \subseteq Value \cup BOOLEAN
           /\ m = "EnableAccount" => Args(m) = BOOLEAN
           /\ m \in Creators \/ (m \in Changers /\ m # "EnableAccount") => Args(m) = Value
BY BossAssumption DEF Args, Methods, Creators, Changers, Readers, Erasers

LEMMA ListsType ==
    ASSUME NEW m \in Methods
    PROVE  /\ Lists(m) \subseteq Seq(Account) \ {<<>>}
           /\ \A l \in Lists(m) : Len(l) >= 1
           /\ m = "Register" => \A l \in Lists(m) : Len(l) = 1
<1>1. CASE m = "IpoeRegister"
  <2>1. Lists(m) = MacLists
    BY <1>1 DEF Lists
  <2>2. \A l \in Seq(Account) \ {<<>>} : Len(l) >= 1
    BY EmptySeq, LenProperties
  <2> QED BY <1>1, <2>1, <2>2, BossAssumption
<1>2. CASE m # "IpoeRegister"
  <2>1. \A a \in Account : <<a>> \in Seq(Account) /\ Len(<<a>>) = 1 /\ <<a>> # <<>>
    OBVIOUS
  <2>2. \A l \in Lists(m) : \E a \in Account : l = <<a>>
    BY <1>2 DEF Lists
  <2>3. ASSUME NEW l \in Lists(m)
        PROVE  l \in Seq(Account) \ {<<>>} /\ Len(l) = 1
    <3>1. PICK a \in Account : l = <<a>>
      BY <2>2
    <3> QED BY <2>1, <3>1
  <2> QED BY <2>3
<1> QED BY <1>1, <1>2

\* The account of the request under way.
LEMMA KeyType ==
    ASSUME BossTypeInv, NEW c \in Call, call[c].at # "idle"
    PROVE  Key(c) \in Account
<1>1. call[c] \in Calls /\ CallOK(call[c])
  BY DEF BossTypeInv, TypeOK
<1>2. /\ call[c].list \in Seq(Account) /\ call[c].list # <<>> /\ call[c].pos \in Nat
      /\ call[c].pos >= 1 /\ (call[c].method = "IpoeRegister" => call[c].pos <= Len(call[c].list))
  BY <1>1 DEF Calls, CallOK
<1>3. Len(call[c].list) >= 1
  BY <1>2, EmptySeq, LenProperties
<1>4. ASSUME NEW i \in 1..Len(call[c].list)
      PROVE  call[c].list[i] \in Account
  BY <1>2, <1>4, ElementOfSeq
<1> QED BY <1>2, <1>3, <1>4 DEF Key

LEMMA BodyType ==
    ASSUME BossTypeInv, NEW c \in Call, call[c].at # "idle",
           call[c].method \in Changers, call[c].pos = 2
    PROVE  Body(c) \in Row
<1>1. call[c] \in Calls /\ CallOK(call[c])
  BY DEF BossTypeInv, TypeOK
<1>2. call[c].seen \in Row /\ call[c].arg \in Args(call[c].method) /\ call[c].method \in Methods
  BY <1>1 DEF Calls, CallOK
<1>3. CASE call[c].method = "EnableAccount"
  BY <1>2, <1>3, ArgsType DEF Body, Row
<1>4. CASE call[c].method # "EnableAccount"
  BY <1>2, <1>4, ArgsType DEF Body, Row, Changers
<1> QED BY <1>3, <1>4

\* What a handler can become.
LEMMA EndedType ==
    ASSUME BossTypeInv, NEW c \in Call, NEW code \in Codes
    PROVE  Ended(c, code) \in Calls /\ CallOK(Ended(c, code))
<1>1. call[c] \in Calls
  BY DEF BossTypeInv, TypeOK
<1>2. /\ Ended(c, code) = [call[c] EXCEPT !.at = "idle", !.token = NoToken, !.result = code]
      /\ Ended(c, code).at = "idle"
  BY <1>1 DEF Ended, Calls
<1>3. Ended(c, code) \in Calls
  BY <1>1 DEF Ended, Calls
<1> QED BY <1>2, <1>3 DEF CallOK

LEMMA FailCodeType == \A m \in Methods : FailCode(m) \in Codes
BY DEF FailCode, Codes

LEMMA NextRequestType ==
    ASSUME BossTypeInv, NEW c \in Call, call[c].at # "idle",
           call[c].method = "IpoeRegister" => call[c].pos < Len(call[c].list),
           call[c].method \notin Changers
    PROVE  NextRequest(c) \in Calls /\ CallOK(NextRequest(c))
<1>1. call[c] \in Calls /\ CallOK(call[c])
  BY DEF BossTypeInv, TypeOK
<1> DEFINE k == NextRequest(c)
<1>2. k \in Calls
  <2>1. call[c].pos + 1 \in Nat
    BY <1>1 DEF Calls
  <2>2. \A n \in Nat : [call[c] EXCEPT !.at = "ready", !.token = NoToken, !.pos = n] \in Calls
    BY <1>1 DEF Calls
  <2> QED BY <2>1, <2>2 DEF NextRequest
<1>3. /\ k.at = "ready" /\ k.pos = call[c].pos + 1 /\ k.method = call[c].method
      /\ k.list = call[c].list /\ k.arg = call[c].arg /\ k.result = call[c].result
  BY <1>1 DEF NextRequest, Calls
<1>4. call[c].pos \in Nat /\ Len(call[c].list) \in Nat
  BY <1>1, LenProperties DEF Calls
<1> HIDE DEF k
<1> QED BY <1>1, <1>2, <1>3, <1>4 DEF CallOK, k

LEMMA ReadType ==
    ASSUME BossTypeInv, NEW c \in Call, call[c].at # "idle", call[c].method # "IpoeRegister",
           NEW row \in Row
    PROVE  LET k == [NextRequest(c) EXCEPT !.seen = row]
           IN  k \in Calls /\ CallOK(k)
<1>1. call[c] \in Calls /\ CallOK(call[c])
  BY DEF BossTypeInv, TypeOK
<1> DEFINE k == [NextRequest(c) EXCEPT !.seen = row]
<1>2. k \in Calls
  <2>1. call[c].pos + 1 \in Nat
    BY <1>1 DEF Calls
  <2>2. \A n \in Nat : [call[c] EXCEPT !.at = "ready", !.token = NoToken, !.pos = n] \in Calls
    BY <1>1 DEF Calls
  <2>3. \A q \in Calls : [q EXCEPT !.seen = row] \in Calls
    BY DEF Calls
  <2> QED BY <2>1, <2>2, <2>3 DEF NextRequest
<1>3. /\ k.at = "ready" /\ k.pos = call[c].pos + 1 /\ k.method = call[c].method /\ k.seen = row
      /\ k.list = call[c].list /\ k.arg = call[c].arg /\ k.result = call[c].result
  BY <1>1 DEF NextRequest, Calls
<1>4. call[c].pos \in Nat
  BY <1>1 DEF Calls
<1> HIDE DEF k
<1>5. k \in Calls /\ CallOK(k)
  BY <1>1, <1>2, <1>3, <1>4, NoAccountAssumption DEF CallOK
<1> QED BY <1>5 DEF k

LEMMA InsertedType ==
    ASSUME BossTypeInv, NEW c \in Call, call[c].at # "idle", call[c].method \in Creators
    PROVE  Inserted(c) \in Calls /\ CallOK(Inserted(c))
<1> DEFINE rows == call[c].rows \cup {<<Key(c), life[Key(c)]>>}
<1>1. rows \in SUBSET (Account \X Nat)
  BY KeyType DEF BossTypeInv, TypeOK, Calls
<1>2. ASSUME NEW k \in Calls, CallOK(k)
      PROVE  [k EXCEPT !.rows = rows] \in Calls /\ CallOK([k EXCEPT !.rows = rows])
  BY <1>1, <1>2 DEF Calls, CallOK
<1>3. CASE call[c].method = "IpoeRegister" /\ call[c].pos < Len(call[c].list)
  <2>1. Inserted(c) = [NextRequest(c) EXCEPT !.rows = rows]
    BY <1>3 DEF Inserted
  <2> QED BY <1>2, <1>3, <2>1, NextRequestType DEF Creators, Changers
<1>4. CASE ~(call[c].method = "IpoeRegister" /\ call[c].pos < Len(call[c].list))
  <2>1. Inserted(c) = [Ended(c, "SUCCESS") EXCEPT !.rows = rows]
    BY <1>4 DEF Inserted
  <2> QED BY <1>2, <2>1, EndedType DEF Codes
<1> QED BY <1>3, <1>4

\* A step that changes one call.
LEMMA UpdateCall ==
    ASSUME BossTypeInv, NEW c \in Call, NEW k \in Calls, CallOK(k),
           call' = [call EXCEPT ![c] = k]
    PROVE  call' \in [Call -> Calls] /\ \A d \in Call : CallOK(call'[d])
BY DEF BossTypeInv, TypeOK

LEMMA AnsweredType ==
    ASSUME BossTypeInv, NEW c \in Call, NEW k \in Calls, CallOK(k), Answered(c, k)
    PROVE  call' \in [Call -> Calls] /\ \A d \in Call : CallOK(call'[d])
<1>1. Ended(c, "UNKNOWN") \in Calls /\ CallOK(Ended(c, "UNKNOWN"))
  BY EndedType DEF Codes
<1> QED BY <1>1, UpdateCall DEF Answered, Returns

LEMMA BeginType ==
    ASSUME BossTypeInv, NEW c \in Call, NEW m \in Used, Begin(c, m)
    PROVE  call' \in [Call -> Calls] /\ \A d \in Call : CallOK(call'[d])
<1>1. m \in Methods
  BY BossAssumption
<1>2. PICK l \in Lists(m), v \in Args(m) :
         call' = [call EXCEPT ![c] =
             [IdleCall EXCEPT !.at = "ready", !.method = m, !.list = l, !.arg = v]]
  BY DEF Begin
<1> DEFINE k == [IdleCall EXCEPT !.at = "ready", !.method = m, !.list = l, !.arg = v]
<1>3. l \in Seq(Account) /\ l # <<>> /\ Len(l) >= 1 /\ (m = "Register" => Len(l) = 1)
  BY <1>1, ListsType
<1>4. v \in Value \cup BOOLEAN
  BY <1>1, ArgsType
<1>5. /\ k.at = "ready" /\ k.method = m /\ k.list = l /\ k.arg = v /\ k.pos = 1 /\ k.result = "none"
      /\ k \in Calls
  BY <1>1, <1>3, <1>4 DEF IdleCall, Calls, Codes
<1>6. call' = [call EXCEPT ![c] = k]
  BY <1>2
<1> HIDE DEF k
<1>7. CallOK(k)
  BY <1>3, <1>5 DEF CallOK
<1> QED BY <1>5, <1>6, <1>7, UpdateCall

LEMMA BeginRefusedType ==
    ASSUME BossTypeInv, NEW c \in Call, BeginRefused(c)
    PROVE  call' \in [Call -> Calls] /\ \A d \in Call : CallOK(call'[d])
<1>1. PICK m \in Methods, code \in Codes :
         call' = [call EXCEPT ![c] = [IdleCall EXCEPT !.method = m, !.result = code]]
  BY BossAssumption DEF BeginRefused, Codes
<1>2. /\ [IdleCall EXCEPT !.method = m, !.result = code] \in Calls
      /\ [IdleCall EXCEPT !.method = m, !.result = code].at = "idle"
  BY EmptySeq DEF IdleCall, Calls
<1> QED BY <1>1, <1>2, UpdateCall DEF CallOK

\* radiusClient.js gets a token and sends the request.
LEMMA TokenType ==
    ASSUME BossTypeInv, NEW c \in Call,
           UseToken(c) \/ AskLogin(c) \/ LoggedIn(c) \/ LoginFails(c)
    PROVE  BossTypeInv'
<1> USE DEF BossTypeInv
<1>1. call[c] \in Calls /\ CallOK(call[c]) /\ issued \in Nat
  BY DEF TypeOK
<1>2. ASSUME NEW at \in {"login", "sent"}, NEW t \in Nat \cup {NoToken}, call[c].at # "idle"
      PROVE  LET k == [call[c] EXCEPT !.at = at, !.token = t]
             IN  k \in Calls /\ CallOK(k)
  BY <1>1, <1>2 DEF Calls, CallOK
<1>3. CASE UseToken(c)
  <2>1. call' = [call EXCEPT ![c] = [call[c] EXCEPT !.at = "sent", !.token = cached]]
    BY <1>3 DEF UseToken, TypeOK, Calls
  <2>2. cached \in Nat \cup {NoToken} /\ call[c].at # "idle"
    BY <1>3 DEF TypeOK, UseToken
  <2>3. call' \in [Call -> Calls] /\ \A d \in Call : CallOK(call'[d])
    BY <1>2, <2>1, <2>2, UpdateCall
  <2> QED BY <1>3, <2>3 DEF UseToken, TypeOK, api
<1>4. CASE AskLogin(c)
  <2>1. call' = [call EXCEPT ![c] = [call[c] EXCEPT !.at = "login", !.token = call[c].token]]
    BY <1>1, <1>4 DEF AskLogin, TypeOK, Calls
  <2>2. call[c].token \in Nat \cup {NoToken} /\ call[c].at # "idle"
    BY <1>1, <1>4 DEF AskLogin, Calls
  <2>3. call' \in [Call -> Calls] /\ \A d \in Call : CallOK(call'[d])
    BY <1>2, <2>1, <2>2, UpdateCall
  <2> QED BY <1>4, <2>3 DEF AskLogin, TypeOK, api
<1>5. CASE LoggedIn(c)
  <2>1. call' = [call EXCEPT ![c] = [call[c] EXCEPT !.at = "sent", !.token = issued + 1]]
    BY <1>5 DEF LoggedIn, TypeOK, Calls
  <2>2. issued + 1 \in Nat /\ call[c].at # "idle"
    BY <1>1, <1>5 DEF LoggedIn
  <2>3. call' \in [Call -> Calls] /\ \A d \in Call : CallOK(call'[d])
    BY <1>2, <2>1, <2>2, UpdateCall
  <2>4. issued' \in Nat /\ alive' \subseteq 1..issued' /\ cached' \in 1..issued'
    BY <1>5 DEF LoggedIn, TypeOK
  <2> QED BY <1>5, <2>3, <2>4 DEF LoggedIn, TypeOK
<1>6. CASE LoginFails(c)
  <2>1. call' \in [Call -> Calls] /\ \A d \in Call : CallOK(call'[d])
    BY <1>6, EndedType, UpdateCall DEF LoginFails, Returns, Codes
  <2> QED BY <1>6, <2>1 DEF LoginFails, TypeOK, api
<1> QED BY <1>3, <1>4, <1>5, <1>6

\* Requests that change no row.
LEMMA ReadStepType ==
    ASSUME BossTypeInv, NEW c \in Call,
           \/ Refused(c) \/ ConnectionLost(c) \/ DbError(c)
           \/ GetAccount(c) \/ GetOnline(c) \/ PutOnline(c)
    PROVE  BossTypeInv'
<1> USE DEF BossTypeInv
<1>1. call[c] \in Calls /\ CallOK(call[c]) /\ call[c].method \in Methods
  BY DEF TypeOK, Calls
<1>2. ASSUME NEW code \in Codes
      PROVE  /\ Ended(c, code) \in Calls /\ CallOK(Ended(c, code))
  BY EndedType
<1>3. FailCode(call[c].method) \in Codes
  BY <1>1, FailCodeType
<1>4. call' \in [Call -> Calls] /\ \A d \in Call : CallOK(call'[d])
  <2>1. CASE Refused(c)
    BY <1>2, <1>3, <2>1, AnsweredType DEF Refused
  <2>2. CASE ConnectionLost(c)
    BY <1>2, <2>2, UpdateCall DEF ConnectionLost, Returns, Codes
  <2>3. CASE DbError(c)
    BY <1>2, <1>3, <2>3, AnsweredType DEF DbError
  <2>4. CASE GetAccount(c)
    <3> DEFINE row == account[Key(c)]
    <3>1. call[c].at # "idle" /\ call[c].method \in Readers \cup Changers
      BY <2>4 DEF GetAccount, Served
    <3>2. row \in Row \cup {NoRow}
      BY <3>1, KeyType DEF TypeOK
    <3>3. CASE row = NoRow \/ call[c].method \in {"IsExist", "CheckPassword"}
      <4>1. PICK code \in Codes : Answered(c, Ended(c, code))
        BY <2>4, <3>3 DEF GetAccount, Codes
      <4> QED BY <1>2, <4>1, AnsweredType
    <3>4. CASE row # NoRow /\ call[c].method \notin {"IsExist", "CheckPassword"}
      <4>1. Answered(c, [NextRequest(c) EXCEPT !.seen = row])
        BY <2>4, <3>4 DEF GetAccount
      <4>2. row \in Row /\ call[c].method # "IpoeRegister"
        BY <3>1, <3>2, <3>4 DEF Readers, Changers
      <4> QED BY <3>1, <4>1, <4>2, ReadType, AnsweredType
    <3> QED BY <3>3, <3>4
  <2>5. CASE GetOnline(c)
    <3>1. call[c].at # "idle" /\ call[c].method \in {"SearchCustomerStatus", "ForceOffline"}
      BY <2>5 DEF GetOnline, Served
    <3>2. NextRequest(c) \in Calls /\ CallOK(NextRequest(c))
      BY <3>1, NextRequestType DEF Changers
    <3>3. CASE Answered(c, NextRequest(c))
      BY <3>2, <3>3, AnsweredType
    <3>4. ASSUME NEW code \in Codes, Answered(c, Ended(c, code))
          PROVE  call' \in [Call -> Calls] /\ \A d \in Call : CallOK(call'[d])
      BY <1>2, <3>4, AnsweredType
    <3> QED BY <2>5, <3>3, <3>4 DEF GetOnline, Codes
  <2>6. CASE PutOnline(c)
    BY <1>2, <2>6, AnsweredType DEF PutOnline, Codes
  <2> QED BY <2>1, <2>2, <2>3, <2>4, <2>5, <2>6
<1>5. UNCHANGED <<api, issued, cached, made, form>>
  BY DEF Refused, ConnectionLost, DbError, GetAccount, GetOnline, PutOnline
<1> QED BY <1>4, <1>5 DEF TypeOK, api

\* Requests that change a row.
LEMMA WriteStepType ==
    ASSUME BossTypeInv, NEW c \in Call, PutAccount(c) \/ PostAccount(c) \/ DeleteAccount(c)
    PROVE  BossTypeInv'
<1> USE DEF BossTypeInv
<1>1. call[c] \in Calls /\ CallOK(call[c]) /\ call[c].method \in Methods /\ call[c].at # "idle"
  BY DEF TypeOK, Calls, PutAccount, PostAccount, DeleteAccount, Served
<1>2. Key(c) \in Account
  BY <1>1, KeyType
<1>3. ASSUME NEW code \in Codes, Answered(c, Ended(c, code))
      PROVE  call' \in [Call -> Calls] /\ \A d \in Call : CallOK(call'[d])
  BY <1>3, EndedType, AnsweredType
<1>4. CASE PutAccount(c)
  <2>1. call' \in [Call -> Calls] /\ \A d \in Call : CallOK(call'[d])
    BY <1>3, <1>4 DEF PutAccount, Codes
  <2>2. account' \in [Account -> Row \cup {NoRow}]
    BY <1>1, <1>2, <1>4, BodyType DEF PutAccount, TypeOK
  <2> QED BY <1>4, <2>1, <2>2 DEF PutAccount, TypeOK
<1>5. CASE PostAccount(c)
  <2>1. call' \in [Call -> Calls] /\ \A d \in Call : CallOK(call'[d])
    <3>1. CASE Answered(c, Inserted(c))
      BY <1>1, <1>5, <3>1, InsertedType, AnsweredType DEF PostAccount
    <3> QED BY <1>1, <1>3, <1>5, <3>1, FailCodeType DEF PostAccount
  <2>2. NewRow(call[c].arg) \in Row
    <3>1. call[c].arg \in Value
      BY <1>1, <1>5, ArgsType DEF PostAccount, CallOK
    <3> QED BY <3>1 DEF NewRow, Row
  <2>3. account' \in [Account -> Row \cup {NoRow}]
    BY <1>2, <1>5, <2>2 DEF PostAccount, TypeOK
  <2> QED BY <1>5, <2>1, <2>3 DEF PostAccount, TypeOK
<1>6. CASE DeleteAccount(c)
  <2>1. call' \in [Call -> Calls] /\ \A d \in Call : CallOK(call'[d])
    BY <1>3, <1>6 DEF DeleteAccount, Codes
  <2>2. account' \in [Account -> Row \cup {NoRow}] /\ life' \in [Account -> Nat]
    BY <1>2, <1>6 DEF DeleteAccount, Remove, TypeOK
  <2> QED BY <1>6, <2>1, <2>2 DEF DeleteAccount, TypeOK
<1> QED BY <1>4, <1>5, <1>6

\* The account page.
LEMMA UiType ==
    ASSUME BossTypeInv, Ui
    PROVE  BossTypeInv'
<1> USE DEF BossTypeInv
<1>1. ASSUME NEW a \in Account, UiAdd(a)
      PROVE  account' \in [Account -> Row \cup {NoRow}]
  <2>1. PICK v \in Value : account' = [account EXCEPT ![a] = [NewRow(v) EXCEPT !.limits = 1]]
    BY <1>1 DEF UiAdd
  <2>2. [NewRow(v) EXCEPT !.limits = 1] \in Row
    BY DEF NewRow, Row
  <2> QED BY <2>1, <2>2 DEF TypeOK
<1>2. CASE \E a \in Account : UiAdd(a)
  BY <1>1, <1>2 DEF UiAdd, TypeOK, bridge
<1>3. ASSUME NEW a \in Account, UiLoad(a)
      PROVE  BossTypeInv'
  BY <1>3 DEF UiLoad, TypeOK, Forms, bridge, api
<1>4. ASSUME NEW a \in Account, UiDelete(a)
      PROVE  BossTypeInv'
  BY <1>4 DEF UiDelete, Remove, TypeOK, bridge
<1>5. CASE UiSave
  <2>1. form.acc \in Account /\ form.row \in Row
    BY <1>5 DEF UiSave, TypeOK, Forms
  <2>2. \A b \in BOOLEAN : [form.row EXCEPT !.frozen = b] \in Row
    BY <2>1 DEF Row
  <2>3. account' \in [Account -> Row \cup {NoRow}]
    BY <1>5, <2>1, <2>2 DEF UiSave, TypeOK
  <2> QED BY <1>5, <2>3 DEF UiSave, TypeOK, bridge
<1> QED BY <1>2, <1>3, <1>4, <1>5 DEF Ui

LEMMA BossTypeInvariant == Spec => []BossTypeInv
<1>1. Init => BossTypeInv
  BY EmptySeq DEF Init, BossTypeInv, TypeOK, CallOK, IdleCall, Calls, Methods, Readers, Codes
<1>2. BossTypeInv /\ [Next]_vars => BossTypeInv'
  <2> SUFFICES ASSUME BossTypeInv, [Next]_vars
               PROVE  BossTypeInv'
    OBVIOUS
  <2>1. ASSUME NEW c \in Call, NEW m \in Used, Begin(c, m)
        PROVE  BossTypeInv'
    <3>1. call' \in [Call -> Calls] /\ \A d \in Call : CallOK(call'[d])
      BY <2>1, BeginType
    <3>2. made' = made + 1 /\ UNCHANGED <<api, issued, cached, form>>
      BY <2>1 DEF Begin
    <3> QED BY <3>1, <3>2 DEF BossTypeInv, TypeOK, api
  <2>2. ASSUME NEW c \in Call, BeginRefused(c)
        PROVE  BossTypeInv'
    <3>1. call' \in [Call -> Calls] /\ \A d \in Call : CallOK(call'[d])
      BY <2>2, BeginRefusedType
    <3>2. made' = made + 1 /\ UNCHANGED <<api, issued, cached, form>>
      BY <2>2 DEF BeginRefused
    <3> QED BY <3>1, <3>2 DEF BossTypeInv, TypeOK, api
  <2>3. ASSUME NEW t \in alive, Expire(t)
        PROVE  BossTypeInv'
    BY <2>3 DEF Expire, BossTypeInv, TypeOK, bridge
  <2>4. ASSUME NEW a \in Account, Session(a)
        PROVE  BossTypeInv'
    BY <2>4 DEF Session, BossTypeInv, TypeOK, bridge
  <2>5. CASE UNCHANGED vars
    BY <2>5 DEF BossTypeInv, TypeOK, vars, api, bridge
  <2> QED BY <2>1, <2>2, <2>3, <2>4, <2>5, TokenType, ReadStepType, WriteStepType, UiType DEF Next
<1> QED BY <1>1, <1>2, PTL DEF Spec

\* Type correctness of the rows, the tokens, the browser's form and the calls.
THEOREM BossTypes == Spec => []TypeOK
<1>1. BossTypeInv => TypeOK
  BY DEF BossTypeInv
<1> QED BY <1>1, BossTypeInvariant, PTL

-----------------------------------------------------------------------------
(***************************************************************************)
(* Registration.  A row is known by its account and the number of times    *)
(* the account had been deleted: only one call ever inserted it.           *)
(***************************************************************************)
RowsCurrent ==
    \A c \in Call : \A r \in call[c].rows :
        /\ r[2] <= life[r[1]]
        /\ r[2] = life[r[1]] => account[r[1]] # NoRow

RowsApart ==
    \A c, d \in Call : c # d => call[c].rows \cap call[d].rows = {}

\* The accounts of the list up to the request under way are in.
ListOK(k) ==
    k.method \in Creators =>
        /\ k.at # "idle" => \A i \in 1..(k.pos - 1) : \E r \in k.rows : r[1] = k.list[i]
        /\ k.result = "SUCCESS" => \A i \in DOMAIN k.list : \E r \in k.rows : r[1] = k.list[i]

ListFilled == \A c \in Call : ListOK(call[c])

RegisterInv == RowsCurrent /\ RowsApart /\ ListFilled

\* A step that inserts no row for a call: rows may change, and accounts be
\* deleted, which counts as a new life.
LEMMA KeptRows ==
    ASSUME BossTypeInv, RegisterInv,
           \A c \in Call : call'[c].rows \subseteq call[c].rows,
           \A a \in Account :
               \/ life'[a] = life[a] /\ (account[a] # NoRow => account'[a] # NoRow)
               \/ life'[a] = life[a] + 1,
           \A c \in Call : ListOK(call'[c])
    PROVE  RegisterInv'
<1>1. RowsCurrent'
  <2> SUFFICES ASSUME NEW c \in Call, NEW r \in call'[c].rows
               PROVE  /\ r[2] <= life'[r[1]]
                      /\ r[2] = life'[r[1]] => account'[r[1]] # NoRow
    BY DEF RowsCurrent
  <2>1. r \in call[c].rows
    OBVIOUS
  <2>2. r \in Account \X Nat
    BY <2>1 DEF BossTypeInv, TypeOK, Calls
  <2>3. r[1] \in Account /\ r[2] \in Nat /\ life[r[1]] \in Nat
    BY <2>2 DEF BossTypeInv, TypeOK
  <2>4. r[2] <= life[r[1]] /\ (r[2] = life[r[1]] => account[r[1]] # NoRow)
    BY <2>1 DEF RegisterInv, RowsCurrent
  <2> QED BY <2>3, <2>4
<1>2. RowsApart'
  BY DEF RegisterInv, RowsApart
<1> QED BY <1>1, <1>2 DEF RegisterInv, ListFilled

\* A handler that returns something else than SUCCESS, or is no registration.
LEMMA EndedList ==
    ASSUME BossTypeInv, NEW c \in Call, NEW code \in Codes,
           code # "SUCCESS" \/ call[c].method \notin Creators
    PROVE  ListOK(Ended(c, code)) /\ Ended(c, code).rows = call[c].rows
BY DEF BossTypeInv, TypeOK, Calls, Ended, ListOK

LEMMA OtherList ==
    ASSUME RegisterInv, NEW c \in Call, NEW k, ListOK(k), k.rows \subseteq call[c].rows,
           call \in [Call -> Calls], call' = [call EXCEPT ![c] = k]
    PROVE  /\ \A d \in Call : call'[d].rows \subseteq call[d].rows
           /\ \A d \in Call : ListOK(call'[d])
BY DEF RegisterInv, ListFilled

LEMMA AnsweredList ==
    ASSUME BossTypeInv, RegisterInv, NEW c \in Call,
           NEW k, ListOK(k), k.rows \subseteq call[c].rows, Answered(c, k)
    PROVE  /\ \A d \in Call : call'[d].rows \subseteq call[d].rows
           /\ \A d \in Call : ListOK(call'[d])
<1>1. call \in [Call -> Calls]
  BY DEF BossTypeInv, TypeOK
<1>2. ListOK(Ended(c, "UNKNOWN")) /\ Ended(c, "UNKNOWN").rows = call[c].rows
  BY EndedList DEF Codes
<1> QED BY <1>1, <1>2, OtherList DEF Answered, Returns

LEMMA BeginRegister ==
    ASSUME BossTypeInv, RegisterInv, NEW c \in Call,
           BeginRefused(c) \/ \E m \in Used : Begin(c, m)
    PROVE  RegisterInv'
<1>1. call \in [Call -> Calls] /\ UNCHANGED <<account, life>>
  BY DEF BossTypeInv, TypeOK, BeginRefused, Begin, api
<1>2. ASSUME NEW m, NEW l, NEW v,
             call' = [call EXCEPT ![c] =
                 [IdleCall EXCEPT !.at = "ready", !.method = m, !.list = l, !.arg = v]]
      PROVE  RegisterInv'
  <2> DEFINE k == [IdleCall EXCEPT !.at = "ready", !.method = m, !.list = l, !.arg = v]
  <2>1. k.rows = {} /\ k.result = "none" /\ k.pos = 1
    BY DEF IdleCall
  <2>2. call' = [call EXCEPT ![c] = k]
    BY <1>2
  <2> HIDE DEF k
  <2>3. ListOK(k)
    BY <2>1 DEF ListOK
  <2>4. k.rows \subseteq call[c].rows
    BY <2>1
  <2> QED BY <1>1, <2>2, <2>3, <2>4, OtherList, KeptRows
<1>3. ASSUME NEW m, NEW code \in {"PARAM_EMPTY", "PARAM_INVALID"},
             call' = [call EXCEPT ![c] = [IdleCall EXCEPT !.method = m, !.result = code]]
      PROVE  RegisterInv'
  <2> DEFINE k == [IdleCall EXCEPT !.method = m, !.result = code]
  <2>1. k.rows = {} /\ k.result = code /\ k.at = "idle"
    BY DEF IdleCall
  <2>2. call' = [call EXCEPT ![c] = k]
    BY <1>3
  <2> HIDE DEF k
  <2>3. ListOK(k)
    BY <2>1 DEF ListOK
  <2>4. k.rows \subseteq call[c].rows
    BY <2>1
  <2> QED BY <1>1, <2>2, <2>3, <2>4, OtherList, KeptRows
<1>4. ASSUME NEW m \in Used, Begin(c, m)
      PROVE  RegisterInv'
  <2>1. PICK l \in Lists(m), v \in Args(m) :
           call' = [call EXCEPT ![c] =
               [IdleCall EXCEPT !.at = "ready", !.method = m, !.list = l, !.arg = v]]
    BY <1>4 DEF Begin
  <2> QED BY <1>2, <2>1
<1>5. CASE BeginRefused(c)
  <2>1. PICK m \in Methods, code \in {"PARAM_EMPTY", "PARAM_INVALID"} :
           call' = [call EXCEPT ![c] = [IdleCall EXCEPT !.method = m, !.result = code]]
    BY <1>5, BossAssumption DEF BeginRefused
  <2> QED BY <1>3, <2>1
<1> QED BY <1>4, <1>5

LEMMA TokenRegister ==
    ASSUME BossTypeInv, RegisterInv, NEW c \in Call,
           UseToken(c) \/ AskLogin(c) \/ LoggedIn(c) \/ LoginFails(c)
    PROVE  RegisterInv'
<1>1. call \in [Call -> Calls] /\ UNCHANGED <<account, life>>
  BY DEF BossTypeInv, TypeOK, UseToken, AskLogin, LoggedIn, LoginFails, api
<1>2. CASE LoginFails(c)
  <2>1. ListOK(Ended(c, "UNKNOWN")) /\ Ended(c, "UNKNOWN").rows = call[c].rows
    BY EndedList DEF Codes
  <2> QED BY <1>1, <1>2, <2>1, OtherList, KeptRows DEF LoginFails, Returns
<1>3. CASE UseToken(c) \/ AskLogin(c) \/ LoggedIn(c)
  <2>1. \E at \in {"sent", "login"} : \E t :
           call' = [call EXCEPT ![c] = [call[c] EXCEPT !.at = at, !.token = t]]
    <3>1. CASE UseToken(c)
      BY <1>1, <3>1 DEF UseToken
    <3>2. CASE AskLogin(c)
      <4>1. call' = [call EXCEPT ![c] = [call[c] EXCEPT !.at = "login", !.token = call[c].token]]
        BY <1>1, <3>2 DEF AskLogin, Calls
      <4> QED BY <4>1
    <3>3. CASE LoggedIn(c)
      BY <1>1, <3>3 DEF LoggedIn
    <3> QED BY <1>3, <3>1, <3>2, <3>3
  <2>1a. PICK at \in {"sent", "login"} : \E t :
           call' = [call EXCEPT ![c] = [call[c] EXCEPT !.at = at, !.token = t]]
    BY <2>1
  <2>1b. PICK t : call' = [call EXCEPT ![c] = [call[c] EXCEPT !.at = at, !.token = t]]
    BY <2>1a
  <2> DEFINE k == [call[c] EXCEPT !.at = at, !.token = t]
  <2>2. /\ k.rows = call[c].rows /\ k.result = call[c].result /\ k.list = call[c].list
        /\ k.pos = call[c].pos /\ k.method = call[c].method
    BY <1>1 DEF Calls
  <2>3. call[c].at # "idle"
    BY <1>3 DEF UseToken, AskLogin, LoggedIn
  <2>4. call' = [call EXCEPT ![c] = k]
    BY <2>1b
  <2>5. ListOK(call[c])
    BY DEF RegisterInv, ListFilled
  <2> HIDE DEF k
  <2>6. ListOK(k)
    BY <2>2, <2>3, <2>5 DEF ListOK
  <2> QED BY <1>1, <2>2, <2>4, <2>6, OtherList, KeptRows
<1> QED BY <1>2, <1>3

LEMMA ReadStepRegister ==
    ASSUME BossTypeInv, RegisterInv, NEW c \in Call,
           \/ Refused(c) \/ ConnectionLost(c) \/ DbError(c)
           \/ GetAccount(c) \/ GetOnline(c) \/ PutOnline(c)
    PROVE  RegisterInv'
<1>1. call \in [Call -> Calls] /\ UNCHANGED <<account, life>> /\ call[c].method \in Methods
  BY DEF BossTypeInv, TypeOK, Refused, ConnectionLost, DbError, GetAccount, GetOnline, PutOnline, api, Calls
<1>2. ASSUME NEW code \in Codes, code # "SUCCESS" \/ call[c].method \notin Creators,
             Answered(c, Ended(c, code))
      PROVE  RegisterInv'
  BY <1>1, <1>2, EndedList, AnsweredList, KeptRows
<1>3. ASSUME call[c].method \notin Creators, NEW k, Answered(c, k),
             k.method = call[c].method, k.rows = call[c].rows
      PROVE  RegisterInv'
  <2>1. ListOK(k)
    BY <1>3 DEF ListOK
  <2> QED BY <1>1, <1>3, <2>1, AnsweredList, KeptRows
<1>4. FailCode(call[c].method) \in Codes \ {"SUCCESS"}
  BY <1>1, FailCodeType DEF FailCode
<1>5. CASE Refused(c) \/ DbError(c)
  BY <1>2, <1>4, <1>5 DEF Refused, DbError
<1>6. CASE ConnectionLost(c)
  BY <1>2, <1>6 DEF ConnectionLost, Returns, Answered, Codes
<1>7. CASE GetAccount(c)
  <2> DEFINE row == account[Key(c)]
  <2>1. call[c].method \notin Creators
    BY <1>7 DEF GetAccount, Readers, Changers, Creators
  <2>2. CASE Answered(c, [NextRequest(c) EXCEPT !.seen = row])
    <3>1. /\ [NextRequest(c) EXCEPT !.seen = row].method = call[c].method
          /\ [NextRequest(c) EXCEPT !.seen = row].rows = call[c].rows
      BY <1>1 DEF NextRequest, Calls
    <3> QED BY <1>3, <2>1, <2>2, <3>1
  <2>3. CASE \E code \in Codes : Answered(c, Ended(c, code))
    BY <1>2, <2>1, <2>3
  <2> QED BY <1>7, <2>2, <2>3 DEF GetAccount, Codes
<1>8. CASE GetOnline(c)
  <2>1. call[c].method \notin Creators
    BY <1>8 DEF GetOnline, Creators
  <2>2. CASE Answered(c, NextRequest(c))
    <3>1. NextRequest(c).method = call[c].method /\ NextRequest(c).rows = call[c].rows
      BY <1>1 DEF NextRequest, Calls
    <3> QED BY <1>3, <2>1, <2>2, <3>1
  <2>3. CASE \E code \in Codes : Answered(c, Ended(c, code))
    BY <1>2, <2>1, <2>3
  <2> QED BY <1>8, <2>2, <2>3 DEF GetOnline, Codes
<1>9. CASE PutOnline(c)
  BY <1>2, <1>9 DEF PutOnline, Codes
<1> QED BY <1>5, <1>6, <1>7, <1>8, <1>9

\* The INSERT: the row is new, so no other call has it.
LEMMA InsertRegister ==
    ASSUME BossTypeInv, RegisterInv, NEW c \in Call, call[c].at # "idle",
           call[c].method \in Creators, account[Key(c)] = NoRow,
           NEW k \in Calls, ListOK(k), k.rows \subseteq call[c].rows \cup {<<Key(c), life[Key(c)]>>},
           call' = [call EXCEPT ![c] = k],
           NEW row \in Row, account' = [account EXCEPT ![Key(c)] = row], life' = life
    PROVE  RegisterInv'
<1> DEFINE new == <<Key(c), life[Key(c)]>>
<1>1. Key(c) \in Account /\ life[Key(c)] \in Nat
  BY KeyType DEF BossTypeInv, TypeOK
<1>2. ASSUME NEW d \in Call
      PROVE  call'[d].rows \subseteq call[d].rows \cup (IF d = c THEN {new} ELSE {})
  BY DEF BossTypeInv, TypeOK
<1>3. ASSUME NEW d \in Call
      PROVE  new \notin call[d].rows
  BY <1>1 DEF RegisterInv, RowsCurrent
<1>4. RowsCurrent'
  <2> SUFFICES ASSUME NEW d \in Call, NEW r \in call'[d].rows
               PROVE  /\ r[2] <= life'[r[1]]
                      /\ r[2] = life'[r[1]] => account'[r[1]] # NoRow
    BY DEF RowsCurrent
  <2>1. CASE r = new
    BY <1>1, <2>1, NoAccountAssumption DEF BossTypeInv, TypeOK
  <2>2. CASE r \in call[d].rows
    <3>1. r \in Account \X Nat
      BY <2>2 DEF BossTypeInv, TypeOK, Calls
    <3>2. r[2] <= life[r[1]] /\ (r[2] = life[r[1]] => account[r[1]] # NoRow)
      BY <2>2 DEF RegisterInv, RowsCurrent
    <3> QED BY <1>1, <3>1, <3>2, NoAccountAssumption DEF BossTypeInv, TypeOK
  <2> QED BY <1>2, <2>1, <2>2
<1>5. RowsApart'
  BY <1>2, <1>3 DEF RegisterInv, RowsApart
<1>6. ListFilled'
  BY DEF RegisterInv, ListFilled, BossTypeInv, TypeOK
<1> QED BY <1>4, <1>5, <1>6 DEF RegisterInv

\* What the INSERT makes of the call: the request's account is in.
LEMMA InsertedList ==
    ASSUME BossTypeInv, RegisterInv, NEW c \in Call, call[c].at # "idle", call[c].method \in Creators
    PROVE  /\ ListOK(Inserted(c))
           /\ Inserted(c).rows = call[c].rows \cup {<<Key(c), life[Key(c)]>>}
<1> DEFINE rows == call[c].rows \cup {<<Key(c), life[Key(c)]>>}
<1>1. call[c] \in Calls /\ CallOK(call[c]) /\ ListOK(call[c])
  BY DEF BossTypeInv, TypeOK, RegisterInv, ListFilled
<1>2. /\ call[c].list \in Seq(Account) /\ call[c].pos \in Nat /\ call[c].pos >= 1
      /\ Len(call[c].list) \in Nat /\ DOMAIN call[c].list = 1..Len(call[c].list)
      /\ call[c].method \in {"Register", "IpoeRegister"} /\ call[c].result = "none"
  BY <1>1, LenProperties DEF Calls, CallOK, Creators
<1>3. \A i \in 1..(call[c].pos - 1) : \E r \in rows : r[1] = call[c].list[i]
  BY <1>1 DEF ListOK
<1>4. \E r \in rows : r[1] = Key(c)
  <2>1. <<Key(c), life[Key(c)]>> \in rows /\ <<Key(c), life[Key(c)]>>[1] = Key(c)
    OBVIOUS
  <2> QED BY <2>1
<1>5. call[c].method = "IpoeRegister" => \E r \in rows : r[1] = call[c].list[call[c].pos]
  BY <1>4 DEF Key
<1>6. call[c].method = "Register" => \E r \in rows : r[1] = call[c].list[1]
  BY <1>4 DEF Key
<1>7. call[c].method = "IpoeRegister" =>
         \A i \in 1..call[c].pos : \E r \in rows : r[1] = call[c].list[i]
  BY <1>2, <1>3, <1>5
<1>8. CASE call[c].method = "IpoeRegister" /\ call[c].pos < Len(call[c].list)
  <2> DEFINE k == [NextRequest(c) EXCEPT !.rows = rows]
  <2>1. Inserted(c) = k
    BY <1>8 DEF Inserted
  <2>2. /\ k.rows = rows /\ k.method = call[c].method /\ k.pos = call[c].pos + 1
        /\ k.result = call[c].result /\ k.list = call[c].list
    BY <1>1 DEF NextRequest, Calls
  <2> HIDE DEF k
  <2>3. (k.pos - 1) = call[c].pos
    BY <1>2, <2>2
  <2>4. ListOK(k)
    BY <1>2, <1>7, <1>8, <2>2, <2>3 DEF ListOK
  <2> QED BY <2>1, <2>2, <2>4
<1>9. CASE ~(call[c].method = "IpoeRegister" /\ call[c].pos < Len(call[c].list))
  <2> DEFINE k == [Ended(c, "SUCCESS") EXCEPT !.rows = rows]
  <2>1. Inserted(c) = k
    BY <1>9 DEF Inserted
  <2>2. /\ k.rows = rows /\ k.method = call[c].method /\ k.at = "idle" /\ k.list = call[c].list
    BY <1>1 DEF Ended, Calls
  <2>3. \A i \in DOMAIN call[c].list : \E r \in rows : r[1] = call[c].list[i]
    <3>1. CASE call[c].method = "Register"
      <4>1. Len(call[c].list) = 1
        BY <1>1, <3>1 DEF CallOK
      <4> QED BY <1>2, <1>6, <3>1, <4>1
    <3>2. CASE call[c].method = "IpoeRegister"
      <4>1. call[c].pos = Len(call[c].list)
        BY <1>1, <1>2, <1>9, <3>2 DEF CallOK
      <4> QED BY <1>2, <1>7, <3>2, <4>1
    <3> QED BY <1>2, <3>1, <3>2
  <2> HIDE DEF k, rows
  <2>4. ListOK(k)
    BY <2>2, <2>3 DEF ListOK
  <2> QED BY <2>1, <2>2, <2>4 DEF rows
<1> QED BY <1>8, <1>9

LEMMA WriteStepRegister ==
    ASSUME BossTypeInv, RegisterInv, NEW c \in Call, PutAccount(c) \/ PostAccount(c) \/ DeleteAccount(c)
    PROVE  RegisterInv'
<1>1. /\ call \in [Call -> Calls] /\ call[c] \in Calls /\ call[c].method \in Methods
      /\ call[c].at # "idle" /\ account \in [Account -> Row \cup {NoRow}] /\ life \in [Account -> Nat]
  BY DEF BossTypeInv, TypeOK, Calls, PutAccount, PostAccount, DeleteAccount, Served
<1>2. Key(c) \in Account
  BY <1>1, KeyType
<1>3. ASSUME NEW code \in Codes, code # "SUCCESS" \/ call[c].method \notin Creators,
             Answered(c, Ended(c, code)),
             \A a \in Account :
                 \/ life'[a] = life[a] /\ (account[a] # NoRow => account'[a] # NoRow)
                 \/ life'[a] = life[a] + 1
      PROVE  RegisterInv'
  BY <1>3, EndedList, AnsweredList, KeptRows
<1>4. CASE PutAccount(c)
  <2>1. \A a \in Account : life'[a] = life[a] /\ (account[a] # NoRow => account'[a] # NoRow)
    BY <1>1, <1>2, <1>4, BodyType, NoAccountAssumption DEF PutAccount
  <2>2. call[c].method \notin Creators
    BY <1>4 DEF PutAccount, Changers, Creators
  <2> QED BY <1>3, <1>4, <2>1, <2>2 DEF PutAccount, Codes
<1>5. CASE DeleteAccount(c)
  <2>1. \A a \in Account :
           \/ life'[a] = life[a] /\ (account[a] # NoRow => account'[a] # NoRow)
           \/ life'[a] = life[a] + 1
    BY <1>1, <1>2, <1>5 DEF DeleteAccount, Remove
  <2>2. call[c].method \notin Creators
    BY <1>5 DEF DeleteAccount, Erasers, Creators
  <2> QED BY <1>3, <1>5, <2>1, <2>2 DEF DeleteAccount, Codes
<1>6. CASE PostAccount(c)
  <2>1. CASE account[Key(c)] # NoRow
    <3>1. FailCode(call[c].method) \in Codes \ {"SUCCESS"}
      BY <1>1, FailCodeType DEF FailCode
    <3> QED BY <1>3, <1>6, <2>1, <3>1 DEF PostAccount
  <2>2. CASE account[Key(c)] = NoRow
    <3>1. /\ call[c].method \in Creators /\ life' = life
          /\ account' = [account EXCEPT ![Key(c)] = NewRow(call[c].arg)]
          /\ Answered(c, Inserted(c))
      BY <1>6, <2>2 DEF PostAccount
    <3>2. NewRow(call[c].arg) \in Row
      <4>1. call[c].arg \in Value
        BY <1>1, <3>1, ArgsType DEF BossTypeInv, CallOK
      <4> QED BY <4>1 DEF NewRow, Row
    <3>3. CASE call' = [call EXCEPT ![c] = Inserted(c)]
      BY <1>1, <2>2, <3>1, <3>2, <3>3, InsertedType, InsertedList, InsertRegister
    <3>4. CASE call' = [call EXCEPT ![c] = Ended(c, "UNKNOWN")]
      <4>1. /\ Ended(c, "UNKNOWN") \in Calls /\ ListOK(Ended(c, "UNKNOWN"))
            /\ Ended(c, "UNKNOWN").rows = call[c].rows
        BY EndedType, EndedList DEF Codes
      <4> QED BY <1>1, <2>2, <3>1, <3>2, <3>4, <4>1, InsertRegister
    <3> QED BY <3>1, <3>3, <3>4 DEF Answered, Returns
  <2> QED BY <2>1, <2>2
<1> QED BY <1>4, <1>5, <1>6

LEMMA UiRegister ==
    ASSUME BossTypeInv, RegisterInv, Ui
    PROVE  RegisterInv'
<1>1. /\ UNCHANGED call /\ account \in [Account -> Row \cup {NoRow}] /\ life \in [Account -> Nat]
      /\ form \in Forms \cup {NoRow}
  BY DEF BossTypeInv, TypeOK, Ui, UiAdd, UiLoad, UiSave, UiDelete, bridge
<1>2. ASSUME NEW v \in Value
      PROVE  [NewRow(v) EXCEPT !.limits = 1] # NoRow
  BY NoAccountAssumption DEF NewRow, Row
<1>3. ASSUME NEW f \in Forms, NEW b \in BOOLEAN
      PROVE  f.acc \in Account /\ [f.row EXCEPT !.frozen = b] # NoRow
  <2>1. f.row \in Row /\ f.acc \in Account
    BY DEF Forms
  <2>2. [f.row EXCEPT !.frozen = b] \in Row
    BY <2>1 DEF Row
  <2> QED BY <2>1, <2>2, NoAccountAssumption
<1>4. \A a \in Account :
         \/ life'[a] = life[a] /\ (account[a] # NoRow => account'[a] # NoRow)
         \/ life'[a] = life[a] + 1
  <2>1. CASE \E a \in Account : UiAdd(a)
    BY <1>1, <1>2, <2>1 DEF UiAdd
  <2>2. CASE \E a \in Account : UiLoad(a)
    BY <2>2 DEF UiLoad, api
  <2>3. CASE \E a \in Account : UiDelete(a)
    BY <1>1, <2>3 DEF UiDelete, Remove
  <2>4. CASE UiSave
    BY <1>1, <1>3, <2>4 DEF UiSave
  <2> QED BY <2>1, <2>2, <2>3, <2>4 DEF Ui
<1>5. \A c \in Call : ListOK(call'[c])
  BY <1>1 DEF RegisterInv, ListFilled
<1> QED BY <1>1, <1>4, <1>5, KeptRows

LEMMA RegisterInvariant == Spec => []RegisterInv
<1>1. Init => RegisterInv
  BY DEF Init, IdleCall, RegisterInv, RowsCurrent, RowsApart, ListFilled, ListOK
<1>2. BossTypeInv /\ RegisterInv /\ [Next]_vars => RegisterInv'
  <2> SUFFICES ASSUME BossTypeInv, RegisterInv, [Next]_vars
               PROVE  RegisterInv'
    OBVIOUS
  <2>1. CASE UNCHANGED <<account, life, call>>
    BY <2>1 DEF RegisterInv, RowsCurrent, RowsApart, ListFilled, ListOK
  <2>2. ASSUME NEW t \in alive, Expire(t)
        PROVE  UNCHANGED <<account, life, call>>
    BY <2>2 DEF Expire, bridge
  <2>3. ASSUME NEW a \in Account, Session(a)
        PROVE  UNCHANGED <<account, life, call>>
    BY <2>3 DEF Session, bridge
  <2>4. UNCHANGED vars => UNCHANGED <<account, life, call>>
    BY DEF vars, api, bridge
  <2> QED BY <2>1, <2>2, <2>3, <2>4, BeginRegister, TokenRegister, ReadStepRegister,
             WriteStepRegister, UiRegister DEF Next
<1> QED BY <1>1, <1>2, BossTypeInvariant, PTL DEF Spec

\* A registration reported as done is done, and by nobody else: of several
\* calls that register an account (Register and IpoeRegister of
\* handlers/index.js), overlapping or repeated after an answer was lost, one
\* at most is told SUCCESS before the account is erased.
THEOREM RegistrationIsOnce == Spec => []RegisteredOnce
<1>1. RegisterInv => RegisteredOnce
  BY DEF RegisterInv, RowsApart, ListFilled, ListOK, RegisteredOnce
<1> QED BY <1>1, RegisterInvariant, PTL

-----------------------------------------------------------------------------
\* No handler and no browser brings an erased account back with what it read
\* before: PUT /AccountInfo and the account page's save update a row only if
\* it is there.
THEOREM NoResurrection == Spec => ErasedStaysErased
<1> DEFINE Keeps == \A a \in Account : account[a] = NoRow /\ account'[a] # NoRow =>
               \/ \E c \in Call : call[c].at = "sent" /\ call[c].method \in Creators /\ Key(c) = a
               \/ account'[a].limits = 1 /\ form' = form
<1>1. BossTypeInv /\ [Next]_vars => [Keeps]_vars
  <2> SUFFICES ASSUME BossTypeInv, Next, NEW a \in Account, account[a] = NoRow, account'[a] # NoRow
               PROVE  \/ \E c \in Call : call[c].at = "sent" /\ call[c].method \in Creators /\ Key(c) = a
                      \/ account'[a].limits = 1 /\ form' = form
    OBVIOUS
  <2>1. account \in [Account -> Row \cup {NoRow}]
    BY DEF BossTypeInv, TypeOK
  <2>2. ASSUME NEW c \in Call, NEW m, Begin(c, m)
        PROVE  UNCHANGED account
    BY <2>2 DEF Begin, api
  <2>3. ASSUME NEW c \in Call,
               \/ BeginRefused(c) \/ UseToken(c) \/ AskLogin(c) \/ LoggedIn(c) \/ LoginFails(c)
               \/ Refused(c) \/ ConnectionLost(c) \/ DbError(c)
               \/ GetAccount(c) \/ GetOnline(c) \/ PutOnline(c)
        PROVE  UNCHANGED account
    BY <2>3 DEF BeginRefused, UseToken, AskLogin, LoggedIn, LoginFails, Refused, ConnectionLost,
                DbError, GetAccount, GetOnline, PutOnline, api
  <2>4. ASSUME NEW c \in Call, PutAccount(c)
        PROVE  account'[a] = NoRow
    BY <2>1, <2>4 DEF PutAccount
  <2>5. ASSUME NEW c \in Call, PostAccount(c)
        PROVE  call[c].at = "sent" /\ call[c].method \in Creators /\ Key(c) = a
    BY <2>1, <2>5 DEF PostAccount, Served
  <2>6. ASSUME NEW c \in Call, DeleteAccount(c)
        PROVE  account'[a] = NoRow
    BY <2>1, <2>6 DEF DeleteAccount, Remove
  <2>7. ASSUME NEW x, Expire(x) \/ Session(x)
        PROVE  UNCHANGED account
    BY <2>7 DEF Expire, Session
  <2>8. ASSUME NEW x \in Account, UiAdd(x)
        PROVE  account'[a].limits = 1 /\ form' = form
    <3>1. PICK v \in Value : account' = [account EXCEPT ![x] = [NewRow(v) EXCEPT !.limits = 1]]
      BY <2>8 DEF UiAdd
    <3>2. account'[a] = [NewRow(v) EXCEPT !.limits = 1]
      BY <2>1, <3>1
    <3> QED BY <2>8, <3>2 DEF UiAdd, NewRow
  <2>9. ASSUME NEW x \in Account, UiLoad(x) \/ UiDelete(x)
        PROVE  account'[a] = NoRow
    BY <2>1, <2>9 DEF UiLoad, UiDelete, Remove, api
  <2>10. ASSUME UiSave
         PROVE  account'[a] = NoRow
    BY <2>1, <2>10 DEF UiSave
  <2>11. CASE \E c \in Call : PostAccount(c)
    BY <2>5, <2>11
  <2>12. CASE Ui
    BY <2>8, <2>9, <2>10, <2>12 DEF Ui
  <2> QED BY <2>2, <2>3, <2>4, <2>6, <2>7, <2>11, <2>12 DEF Next
<1> QED BY <1>1, BossTypeInvariant, PTL DEF Spec, ErasedStaysErased

-----------------------------------------------------------------------------
(***************************************************************************)
(* The refinement of AccountService, which holds for one SOAP call at a    *)
(* time and without the account page: then the row that a handler read     *)
(* before its PUT is the row that it replaces.                             *)
(***************************************************************************)
OneCall == \A c, d \in Call : c = d

SeenOK(k, rows) ==
    k.at # "idle" /\ k.method \in Changers /\ k.pos = 2 => rows[k.list[1]] = k.seen

SeenCurrent == \A c \in Call : SeenOK(call[c], account)

\* Asking for a token, or logging in, changes neither the row nor what was read.
LEMMA SeenWhenSent ==
    ASSUME BossTypeInv, SeenCurrent, OneCall, NEW c \in Call, call[c].at # "idle",
           NEW at, NEW t, call' = [call EXCEPT ![c] = [call[c] EXCEPT !.at = at, !.token = t]],
           UNCHANGED account
    PROVE  SeenCurrent'
<1>1. call \in [Call -> Calls]
  BY DEF BossTypeInv, TypeOK
<1>2. /\ call'[c].method = call[c].method /\ call'[c].pos = call[c].pos
      /\ call'[c].list = call[c].list /\ call'[c].seen = call[c].seen
  BY <1>1 DEF Calls
<1>3. SeenOK(call'[c], account')
  BY <1>2 DEF SeenCurrent, SeenOK
<1> QED BY <1>3 DEF SeenCurrent, OneCall

\* The calls and the rows together, when one call is answered.
LEMMA SeenWhenAnswered ==
    ASSUME BossTypeInv, OneCall, NEW c \in Call, NEW k, SeenOK(k, account'),
           Answered(c, k)
    PROVE  SeenCurrent'
<1>1. call \in [Call -> Calls]
  BY DEF BossTypeInv, TypeOK
<1>2. SeenOK(Ended(c, "UNKNOWN"), account')
  BY <1>1 DEF Ended, Calls, SeenOK
<1>3. SeenOK(call'[c], account')
  BY <1>1, <1>2 DEF Answered, Returns
<1> QED BY <1>3 DEF SeenCurrent, OneCall

LEMMA EndedSeen ==
    ASSUME BossTypeInv, NEW c \in Call, NEW code
    PROVE  SeenOK(Ended(c, code), account')
BY DEF BossTypeInv, TypeOK, Ended, Calls, SeenOK

LEMMA SeenSteps ==
    ASSUME BossTypeInv, SeenCurrent, OneCall, "ui" \notin Environment, [Next]_vars
    PROVE  SeenCurrent'
<1>1. call \in [Call -> Calls] /\ account \in [Account -> Row \cup {NoRow}]
  BY DEF BossTypeInv, TypeOK
<1>2. ASSUME NEW c \in Call, SeenOK(call'[c], account')
      PROVE  SeenCurrent'
  BY <1>2 DEF SeenCurrent, OneCall
<1>3. ASSUME NEW c \in Call, NEW m \in Used, Begin(c, m)
      PROVE  SeenCurrent'
  <2>1. PICK l \in Lists(m), v \in Args(m) :
           call' = [call EXCEPT ![c] =
               [IdleCall EXCEPT !.at = "ready", !.method = m, !.list = l, !.arg = v]]
    BY <1>3 DEF Begin
  <2>2. call'[c].pos = 1
    BY <1>1, <2>1 DEF IdleCall
  <2> QED BY <1>2, <2>2 DEF SeenOK
<1>4. ASSUME NEW c \in Call, BeginRefused(c) \/ LoginFails(c) \/ ConnectionLost(c)
      PROVE  SeenCurrent'
  <2>1. call'[c].at = "idle"
    <3>1. CASE BeginRefused(c)
      <4>1. PICK m, code : call' = [call EXCEPT ![c] = [IdleCall EXCEPT !.method = m, !.result = code]]
        BY <3>1 DEF BeginRefused
      <4> DEFINE k == [IdleCall EXCEPT !.method = m, !.result = code]
      <4>2. k.at = "idle" /\ call' = [call EXCEPT ![c] = k]
        BY <4>1 DEF IdleCall
      <4> HIDE DEF k
      <4> QED BY <1>1, <4>2
    <3>2. CASE LoginFails(c) \/ ConnectionLost(c)
      <4>1. Ended(c, "UNKNOWN").at = "idle" /\ call' = [call EXCEPT ![c] = Ended(c, "UNKNOWN")]
        BY <1>1, <3>2 DEF LoginFails, ConnectionLost, Returns, Ended, Calls
      <4> QED BY <1>1, <4>1
    <3> QED BY <1>4, <3>1, <3>2
  <2> QED BY <1>2, <2>1 DEF SeenOK
<1>5. ASSUME NEW c \in Call, UseToken(c)
      PROVE  SeenCurrent'
  BY <1>5, SeenWhenSent DEF UseToken, api
<1>6. ASSUME NEW c \in Call, AskLogin(c)
      PROVE  SeenCurrent'
  <2>1. call' = [call EXCEPT ![c] = [call[c] EXCEPT !.at = "login", !.token = call[c].token]]
    <3>1. call[c] = [call[c] EXCEPT !.token = call[c].token]
      BY <1>1 DEF Calls
    <3> QED BY <1>1, <1>6, <3>1 DEF AskLogin, Calls
  <2>2. call[c].at # "idle" /\ UNCHANGED account
    BY <1>6 DEF AskLogin, api
  <2>3. PICK at, t : call' = [call EXCEPT ![c] = [call[c] EXCEPT !.at = at, !.token = t]]
    BY <2>1
  <2> QED BY <2>2, <2>3, SeenWhenSent
<1>7. ASSUME NEW c \in Call, LoggedIn(c)
      PROVE  SeenCurrent'
  BY <1>7, SeenWhenSent DEF LoggedIn
<1>8. ASSUME NEW c \in Call, NEW code, Answered(c, Ended(c, code))
      PROVE  SeenCurrent'
  BY <1>8, EndedSeen, SeenWhenAnswered
<1>9. ASSUME NEW c \in Call, Refused(c) \/ DbError(c) \/ PutOnline(c)
      PROVE  SeenCurrent'
  BY <1>8, <1>9 DEF Refused, DbError, PutOnline
<1>10. ASSUME NEW c \in Call, GetAccount(c)
       PROVE  SeenCurrent'
  <2> DEFINE row == account[Key(c)]
             k == [NextRequest(c) EXCEPT !.seen = row]
  <2>1. Answered(c, k) \/ \E code : Answered(c, Ended(c, code))
    BY <1>10 DEF GetAccount
  <2>2. call[c].method # "IpoeRegister" /\ UNCHANGED account
    BY <1>10 DEF GetAccount, Readers, Changers, api
  <2>3. k.seen = account[call[c].list[1]] /\ k.list = call[c].list
    BY <1>1, <2>2 DEF NextRequest, Calls, Key
  <2> HIDE DEF k
  <2>4. SeenOK(k, account')
    BY <2>2, <2>3 DEF SeenOK
  <2> QED BY <1>8, <2>1, <2>4, SeenWhenAnswered
<1>11. ASSUME NEW c \in Call, GetOnline(c)
       PROVE  SeenCurrent'
  <2>1. Answered(c, NextRequest(c)) \/ \E code : Answered(c, Ended(c, code))
    BY <1>11 DEF GetOnline
  <2>2. call[c].method \notin Changers
    BY <1>11 DEF GetOnline, Changers
  <2>3. SeenOK(NextRequest(c), account')
    BY <1>1, <2>2 DEF NextRequest, Calls, SeenOK
  <2> QED BY <1>8, <2>1, <2>3, SeenWhenAnswered
<1>12. ASSUME NEW c \in Call, PutAccount(c) \/ DeleteAccount(c)
       PROVE  SeenCurrent'
  BY <1>8, <1>12 DEF PutAccount, DeleteAccount
<1>13. ASSUME NEW c \in Call, PostAccount(c)
       PROVE  SeenCurrent'
  <2>1. Answered(c, Inserted(c)) \/ \E code : Answered(c, Ended(c, code))
    BY <1>13 DEF PostAccount
  <2>2. Inserted(c).method = call[c].method
    BY <1>1 DEF Inserted, NextRequest, Ended, Calls
  <2>3. call[c].method \notin Changers
    BY <1>13 DEF PostAccount, Changers, Creators
  <2>4. SeenOK(Inserted(c), account')
    BY <2>2, <2>3 DEF SeenOK
  <2> QED BY <1>8, <2>1, <2>4, SeenWhenAnswered
<1>14. ASSUME NEW x, Expire(x) \/ Session(x)
       PROVE  SeenCurrent'
  BY <1>14 DEF Expire, Session, bridge, SeenCurrent, SeenOK
<1>15. CASE UNCHANGED vars
  BY <1>15 DEF vars, api, bridge, SeenCurrent, SeenOK
<1> QED BY <1>3, <1>4, <1>5, <1>6, <1>7, <1>9, <1>10, <1>11, <1>12, <1>13, <1>14, <1>15 DEF Next, Ui

-----------------------------------------------------------------------------
\* The columns the bridge knows.
Columns(row) == IF row = NoRow THEN NoRow
                ELSE [pwd |-> row.pwd, profile |-> row.profile, frozen |-> row.frozen]

LEMMA ColumnsType ==
    ASSUME NEW row \in Row
    PROVE  Columns(row) \in Service!Record /\ Columns(row) # NoRow
BY NoAccountAssumption DEF Columns, Row, Service!Record

\* What the merge does to the columns it keeps.
LEMMA MergeColumns ==
    ASSUME NEW row \in Row
    PROVE  /\ \A v \in Value : Columns([row EXCEPT !.limits = 0, !.profile = v]) = [Columns(row) EXCEPT !.profile = v]
           /\ \A v \in Value : Columns([row EXCEPT !.limits = 0, !.pwd = v]) = [Columns(row) EXCEPT !.pwd = v]
           /\ \A b \in BOOLEAN : Columns([row EXCEPT !.limits = 0, !.frozen = b]) = [Columns(row) EXCEPT !.frozen = b]
<1>1. Columns(row) = [pwd |-> row.pwd, profile |-> row.profile, frozen |-> row.frozen]
  BY NoAccountAssumption DEF Columns
<1>2. ASSUME NEW q \in Row
      PROVE  Columns(q) = [pwd |-> q.pwd, profile |-> q.profile, frozen |-> q.frozen]
  BY NoAccountAssumption DEF Columns
<1>3. ASSUME NEW v \in Value
      PROVE  Columns([row EXCEPT !.limits = 0, !.profile = v]) = [Columns(row) EXCEPT !.profile = v]
  <2> DEFINE q == [row EXCEPT !.limits = 0, !.profile = v]
  <2>1. q \in Row /\ q.pwd = row.pwd /\ q.profile = v /\ q.frozen = row.frozen
    BY DEF Row
  <2> HIDE DEF q
  <2>2. Columns(q) = [pwd |-> row.pwd, profile |-> v, frozen |-> row.frozen]
    BY <1>2, <2>1
  <2> QED BY <1>1, <2>2 DEF q
<1>4. ASSUME NEW v \in Value
      PROVE  Columns([row EXCEPT !.limits = 0, !.pwd = v]) = [Columns(row) EXCEPT !.pwd = v]
  <2> DEFINE q == [row EXCEPT !.limits = 0, !.pwd = v]
  <2>1. q \in Row /\ q.pwd = v /\ q.profile = row.profile /\ q.frozen = row.frozen
    BY DEF Row
  <2> HIDE DEF q
  <2>2. Columns(q) = [pwd |-> v, profile |-> row.profile, frozen |-> row.frozen]
    BY <1>2, <2>1
  <2> QED BY <1>1, <2>2 DEF q
<1>5. ASSUME NEW b \in BOOLEAN
      PROVE  Columns([row EXCEPT !.limits = 0, !.frozen = b]) = [Columns(row) EXCEPT !.frozen = b]
  <2> DEFINE q == [row EXCEPT !.limits = 0, !.frozen = b]
  <2>1. q \in Row /\ q.pwd = row.pwd /\ q.profile = row.profile /\ q.frozen = b
    BY DEF Row
  <2> HIDE DEF q
  <2>2. Columns(q) = [pwd |-> row.pwd, profile |-> row.profile, frozen |-> b]
    BY <1>2, <2>1
  <2> QED BY <1>1, <2>2 DEF q
<1> QED BY <1>3, <1>4, <1>5

LEMMA KnownColumns ==
    /\ Known = [a \in Account |-> Columns(account[a])]
    /\ Known' = [a \in Account |-> Columns(account'[a])]
BY DEF Known, Columns

LEMMA KnownUpdate ==
    ASSUME BossTypeInv, NEW a \in Account, NEW row, account' = [account EXCEPT ![a] = row]
    PROVE  Known' = [Known EXCEPT ![a] = Columns(row)]
<1>1. account \in [Account -> Row \cup {NoRow}]
  BY DEF BossTypeInv, TypeOK
<1> QED BY <1>1, KnownColumns

LEMMA PostOpens ==
    ASSUME BossTypeInv, NEW c \in Call, PostAccount(c), account[Key(c)] = NoRow
    PROVE  Service!Open(Key(c))
<1>1. Key(c) \in Account
  BY KeyType DEF PostAccount, Served
<1>2. call[c].arg \in Value
  BY ArgsType DEF BossTypeInv, TypeOK, Calls, CallOK, PostAccount, Served
<1>3. account' = [account EXCEPT ![Key(c)] = NewRow(call[c].arg)]
  BY DEF PostAccount
<1> DEFINE row == NewRow(call[c].arg)
<1>4. row \in Row /\ ~row.frozen
  BY <1>2 DEF NewRow, Row
<1> HIDE DEF row
<1>5. Columns(row) \in Service!Record /\ ~Columns(row).frozen
  BY <1>4, ColumnsType, NoAccountAssumption DEF Columns
<1>6. Known[Key(c)] = NoRow
  BY <1>1, KnownColumns DEF Columns
<1>7. Known' = [Known EXCEPT ![Key(c)] = Columns(row)]
  BY <1>1, <1>3, KnownUpdate DEF row
<1> QED BY <1>5, <1>6, <1>7 DEF Service!Open

LEMMA PutChanges ==
    ASSUME BossTypeInv, SeenCurrent, NEW c \in Call, PutAccount(c), account[Key(c)] # NoRow
    PROVE  Service!Change(Key(c))
<1>1. /\ call[c] \in Calls /\ call[c].at # "idle" /\ call[c].method \in Changers /\ call[c].pos = 2
      /\ account \in [Account -> Row \cup {NoRow}]
  BY DEF BossTypeInv, TypeOK, PutAccount, Served
<1> DEFINE a == Key(c)
<1>2. a \in Account /\ a = call[c].list[1]
  BY <1>1, KeyType DEF Key, Changers
<1>3. account[a] = call[c].seen /\ call[c].seen \in Row
  BY <1>1, <1>2 DEF SeenCurrent, SeenOK
<1>4. call[c].arg \in Args(call[c].method) /\ call[c].method \in Methods
  BY <1>1 DEF BossTypeInv, CallOK, Methods
<1>5. Known' = [Known EXCEPT ![a] = Columns(Body(c))]
  BY <1>2, KnownUpdate DEF PutAccount
<1>6. /\ Known[a] = Columns(call[c].seen)
      /\ Known[a] # NoRow
  BY <1>2, <1>3, KnownColumns, ColumnsType
<1>7. Body(c) \in Row
  BY <1>1, BodyType
<1>8. ASSUME call[c].method = "ChangeUserInfo"
      PROVE  \E v \in Value : Known' = [Known EXCEPT ![a].profile = v]
  <2>1. call[c].arg \in Value
    BY <1>4, <1>8, ArgsType DEF Changers
  <2>2. Columns(Body(c)) = [Columns(call[c].seen) EXCEPT !.profile = call[c].arg]
    <3>1. Body(c) = [call[c].seen EXCEPT !.limits = 0, !.profile = call[c].arg]
      BY <1>3, <1>8 DEF Body, Row
    <3>2. \A v \in Value : Columns([call[c].seen EXCEPT !.limits = 0, !.profile = v])
                             = [Columns(call[c].seen) EXCEPT !.profile = v]
      BY <1>3, MergeColumns
    <3> QED BY <2>1, <3>1, <3>2
  <2> QED BY <1>5, <1>6, <2>1, <2>2
<1>9. ASSUME call[c].method = "ChangeUserPassword"
      PROVE  \E v \in Value : Known' = [Known EXCEPT ![a].pwd = v]
  <2>1. call[c].arg \in Value
    BY <1>4, <1>9, ArgsType DEF Changers
  <2>2. Columns(Body(c)) = [Columns(call[c].seen) EXCEPT !.pwd = call[c].arg]
    <3>1. Body(c) = [call[c].seen EXCEPT !.limits = 0, !.pwd = call[c].arg]
      BY <1>3, <1>9 DEF Body, Row
    <3>2. \A v \in Value : Columns([call[c].seen EXCEPT !.limits = 0, !.pwd = v])
                             = [Columns(call[c].seen) EXCEPT !.pwd = v]
      BY <1>3, MergeColumns
    <3> QED BY <2>1, <3>1, <3>2
  <2> QED BY <1>5, <1>6, <2>1, <2>2
<1>10. ASSUME call[c].method = "EnableAccount"
       PROVE  \E b \in BOOLEAN : Known' = [Known EXCEPT ![a].frozen = b]
  <2>1. (~call[c].arg) \in BOOLEAN
    OBVIOUS
  <2>2. Columns(Body(c)) = [Columns(call[c].seen) EXCEPT !.frozen = ~call[c].arg]
    <3>1. Body(c) = [call[c].seen EXCEPT !.limits = 0, !.frozen = ~call[c].arg]
      BY <1>3, <1>10 DEF Body, Row
    <3> QED BY <1>3, <2>1, <3>1, MergeColumns
  <2> QED BY <1>5, <1>6, <2>1, <2>2
<1> QED BY <1>1, <1>6, <1>8, <1>9, <1>10 DEF Service!Change, Changers

LEMMA DeleteCloses ==
    ASSUME BossTypeInv, NEW c \in Call, DeleteAccount(c), account[Key(c)] # NoRow
    PROVE  Service!Close(Key(c))
<1>1. Key(c) \in Account
  BY KeyType DEF DeleteAccount, Served
<1>2. account[Key(c)] \in Row
  BY <1>1 DEF BossTypeInv, TypeOK
<1>3. Known[Key(c)] # NoRow
  BY <1>1, <1>2, KnownColumns, ColumnsType
<1>4. Known' = [Known EXCEPT ![Key(c)] = NoRow]
  BY <1>1, KnownUpdate DEF DeleteAccount, Remove, Columns
<1> QED BY <1>3, <1>4 DEF Service!Close

\* SOAP calls made one after another do what AccountService says, whatever
\* tokens expire, answers get lost and database errors strike: an account is
\* opened, closed, or changed in the one property the method is about.
THEOREM BridgeImplementsService ==
    ASSUME OneCall, "ui" \notin Environment PROVE Spec => ServiceSpec
<1>1. Init => Service!Init /\ SeenCurrent
  <2> SUFFICES ASSUME Init
               PROVE  Service!Init /\ SeenCurrent
    OBVIOUS
  <2>1. SeenCurrent
    BY DEF Init, IdleCall, SeenCurrent, SeenOK
  <2>2. \A a \in Account : account[a] \in Row \cup {NoRow}
    BY DEF Init
  <2>3. \A a \in Account : Columns(account[a]) \in Service!Record \cup {NoRow}
    BY <2>2, ColumnsType DEF Columns
  <2> QED BY <2>1, <2>3, KnownColumns DEF Service!Init
<1>2. BossTypeInv /\ SeenCurrent /\ [Next]_vars => SeenCurrent'
  BY SeenSteps
<1>3. BossTypeInv /\ SeenCurrent /\ [Next]_vars => [Service!Next]_Known
  <2> SUFFICES ASSUME BossTypeInv, SeenCurrent, [Next]_vars
               PROVE  Service!Next \/ UNCHANGED Known
    OBVIOUS
  <2>1. CASE UNCHANGED account
    BY <2>1, KnownColumns
  <2>2. ASSUME NEW c \in Call, PostAccount(c)
        PROVE  Service!Next \/ UNCHANGED account
    <3>1. Key(c) \in Account
      BY <2>2, KeyType DEF PostAccount, Served
    <3> QED BY <2>2, <3>1, PostOpens DEF PostAccount, Service!Next
  <2>3. ASSUME NEW c \in Call, PutAccount(c)
        PROVE  Service!Next \/ UNCHANGED account
    <3>1. Key(c) \in Account
      BY <2>3, KeyType DEF PutAccount, Served
    <3> QED BY <2>3, <3>1, PutChanges DEF PutAccount, Service!Next
  <2>4. ASSUME NEW c \in Call, DeleteAccount(c)
        PROVE  Service!Next \/ UNCHANGED account
    <3>1. Key(c) \in Account
      BY <2>4, KeyType DEF DeleteAccount, Served
    <3> QED BY <2>4, <3>1, DeleteCloses DEF DeleteAccount, Service!Next
  <2>5. ASSUME NEW c \in Call, NEW m, Begin(c, m)
        PROVE  UNCHANGED account
    BY <2>5 DEF Begin, api
  <2>6. ASSUME NEW c \in Call,
               \/ BeginRefused(c) \/ UseToken(c) \/ AskLogin(c) \/ LoggedIn(c) \/ LoginFails(c)
               \/ Refused(c) \/ ConnectionLost(c) \/ DbError(c)
               \/ GetAccount(c) \/ GetOnline(c) \/ PutOnline(c)
        PROVE  UNCHANGED account
    BY <2>6 DEF BeginRefused, UseToken, AskLogin, LoggedIn, LoginFails, Refused, ConnectionLost,
                DbError, GetAccount, GetOnline, PutOnline, api
  <2>7. ASSUME NEW x, Expire(x) \/ Session(x)
        PROVE  UNCHANGED account
    BY <2>7 DEF Expire, Session
  <2>8. UNCHANGED vars => UNCHANGED account
    BY DEF vars, api
  <2> QED BY <2>1, <2>2, <2>3, <2>4, <2>5, <2>6, <2>7, <2>8 DEF Next, Ui
<1> QED BY <1>1, <1>2, <1>3, BossTypeInvariant, PTL DEF Spec, ServiceSpec, Service!Spec
-----------------------------------------------------------------------------
(***************************************************************************)
(* The round of setsql.sh                                                  *)
(***************************************************************************)

\* In a round during which nothing else happened, the hosts are as the monitor
\* lists them: found, then set one by one.
RoundOK ==
    calm =>
        /\ loop.pc = "setMaster" => loop.hosts = {s \in Masters!Servers : role[s] = "Master"}
        /\ loop.pc \in {"slaves", "setSlaves", "sleep"} =>
              \A s \in Masters!Servers : db[s].up /\ role[s] = "Master" =>
                  ~db[s].read_only /\ db[s].events
        /\ loop.pc \in {"setSlaves", "sleep"} =>
              \A s \in Masters!Servers \ loop.hosts : db[s].up /\ role[s] = "Slave" =>
                  db[s].read_only /\ ~db[s].events
        /\ loop.pc = "setSlaves" => \A s \in loop.hosts : role[s] = "Slave"
        /\ loop.pc = "sleep" => loop.hosts = {}

OneMaster == ~(role[First] = "Master" /\ role[Second] = "Master")

RoundInv == Masters!TypeOK /\ OneMaster /\ RoundOK

LEMMA ServerTypes ==
    ASSUME Masters!TypeOK, NEW s \in Masters!Servers
    PROVE  /\ db[s].up \in BOOLEAN /\ db[s].read_only \in BOOLEAN
           /\ db[s].events \in BOOLEAN /\ db[s].repl \in BOOLEAN
           /\ db[s] \in [up : BOOLEAN, read_only : BOOLEAN, events : BOOLEAN, repl : BOOLEAN]
BY DEF Masters!TypeOK

\* What SET GLOBAL does to one server.
LEMMA VariablesSet ==
    ASSUME Masters!TypeOK, NEW s \in Masters!Servers, NEW ro \in BOOLEAN, NEW ev \in BOOLEAN,
           Masters!SetVariables(s, ro, ev)
    PROVE  /\ db' \in [Masters!Servers -> [up : BOOLEAN, read_only : BOOLEAN, events : BOOLEAN,
                                            repl : BOOLEAN]]
           /\ \A x \in Masters!Servers : x # s => db'[x] = db[x]
           /\ db'[s].up = db[s].up
           /\ db[s].up => db'[s].read_only = ro /\ db'[s].events = ev
<1>1. CASE ~db[s].up
  BY <1>1 DEF Masters!SetVariables, Masters!TypeOK
<1>2. CASE db[s].up
  <2> DEFINE new == [db[s] EXCEPT !.read_only = ro, !.events = ev]
  <2>1. new \in [up : BOOLEAN, read_only : BOOLEAN, events : BOOLEAN, repl : BOOLEAN]
    BY ServerTypes
  <2>2. new.up = db[s].up /\ new.read_only = ro /\ new.events = ev
    BY ServerTypes
  <2>3. db' = [db EXCEPT ![s] = new]
    BY <1>2 DEF Masters!SetVariables, Masters!TypeOK
  <2> HIDE DEF new
  <2> QED BY <2>1, <2>2, <2>3 DEF Masters!TypeOK
<1> QED BY <1>1, <1>2

LEMMA LoopRound ==
    ASSUME RoundInv, Masters!FindMaster \/ Masters!SetMaster \/ Masters!FindSlaves
                     \/ Masters!SetSlave \/ Masters!NextRound
    PROVE  RoundInv'
<1> USE DEF RoundInv
<1>1. CASE Masters!FindMaster
  <2>1. loop'.pc = "setMaster" /\ loop'.hosts = {s \in Masters!Servers : role[s] = "Master"}
    BY <1>1 DEF Masters!FindMaster
  <2>2. Masters!TypeOK' /\ OneMaster'
    BY <1>1 DEF Masters!FindMaster, Masters!TypeOK, OneMaster
  <2>3. role' = role
    BY <1>1 DEF Masters!FindMaster
  <2> QED BY <2>1, <2>2, <2>3 DEF RoundOK
<1>2. CASE Masters!SetMaster
  <2>1. /\ loop'.pc = "slaves" /\ loop'.hosts = {} /\ loop' = [pc |-> "slaves", hosts |-> {}]
        /\ UNCHANGED <<role, setup, wait, calm>>
    BY <1>2 DEF Masters!SetMaster
  <2>2. OneMaster'
    BY <2>1 DEF OneMaster
  <2>3. CASE loop.hosts = {} /\ UNCHANGED db
    <3>1. calm => \A s \in Masters!Servers : role[s] # "Master"
      BY <1>2, <2>3 DEF RoundOK, Masters!SetMaster
    <3>2. Masters!TypeOK'
      BY <2>1, <2>3 DEF Masters!TypeOK
    <3> QED BY <2>1, <2>2, <2>3, <3>1, <3>2 DEF RoundOK
  <2>4. ASSUME NEW s \in loop.hosts, Masters!SetVariables(s, FALSE, TRUE)
        PROVE  RoundInv'
    <3>0. s \in Masters!Servers
      BY DEF Masters!TypeOK
    <3>1. Masters!TypeOK'
      BY <2>1, <2>4, <3>0, VariablesSet DEF Masters!TypeOK
    <3>2. calm => role[s] = "Master" /\ \A x \in Masters!Servers : role[x] = "Master" => x = s
      BY <1>2, <3>0 DEF RoundOK, Masters!SetMaster, OneMaster, Masters!Servers
    <3>3. calm => \A x \in Masters!Servers : db'[x].up /\ role[x] = "Master" =>
                     ~db'[x].read_only /\ db'[x].events
      BY <2>4, <3>0, <3>2, VariablesSet
    <3> QED BY <2>1, <2>2, <3>1, <3>3 DEF RoundOK
  <2> QED BY <1>2, <2>3, <2>4 DEF Masters!SetMaster
<1>3. CASE Masters!FindSlaves
  <2>1. /\ loop'.pc = "setSlaves" /\ loop'.hosts = {s \in Masters!Servers : role[s] = "Slave"}
        /\ loop.pc = "slaves" /\ UNCHANGED <<db, role, setup, wait, calm>>
    BY <1>3 DEF Masters!FindSlaves
  <2>2. Masters!TypeOK' /\ OneMaster'
    BY <1>3 DEF Masters!FindSlaves, Masters!TypeOK, OneMaster
  <2> QED BY <2>1, <2>2 DEF RoundOK
<1>4. CASE Masters!SetSlave
  <2>1. loop.pc = "setSlaves" /\ UNCHANGED <<role, setup, wait, calm>>
    BY <1>4 DEF Masters!SetSlave
  <2>2. OneMaster'
    BY <2>1 DEF OneMaster
  <2>3. CASE loop.hosts = {} /\ loop' = [loop EXCEPT !.pc = "sleep"] /\ UNCHANGED db
    <3>1. loop'.pc = "sleep" /\ loop'.hosts = {} /\ Masters!TypeOK'
      BY <2>1, <2>3 DEF Masters!TypeOK
    <3> QED BY <2>1, <2>2, <2>3, <3>1 DEF RoundOK
  <2>4. ASSUME NEW s \in loop.hosts, Masters!SetVariables(s, TRUE, FALSE),
               loop' = [loop EXCEPT !.hosts = @ \ {s}]
        PROVE  RoundInv'
    <3>0. s \in Masters!Servers
      BY DEF Masters!TypeOK
    <3>1. Masters!TypeOK'
      BY <2>1, <2>4, <3>0, VariablesSet DEF Masters!TypeOK
    <3>2. loop'.pc = "setSlaves" /\ loop'.hosts = loop.hosts \ {s}
      BY <2>1, <2>4 DEF Masters!TypeOK
    <3>3. calm => role[s] = "Slave"
      BY <2>1 DEF RoundOK
    <3>4. /\ \A x \in Masters!Servers : x # s => db'[x] = db[x]
          /\ db'[s].up = db[s].up
          /\ db[s].up => db'[s].read_only = TRUE /\ db'[s].events = FALSE
      BY <2>4, <3>0, VariablesSet
    <3>5. calm => \A x \in Masters!Servers : db'[x].up /\ role[x] = "Master" =>
                     ~db'[x].read_only /\ db'[x].events
      BY <2>1, <3>3, <3>4 DEF RoundOK
    <3>6. calm => \A x \in Masters!Servers \ loop'.hosts : db'[x].up /\ role[x] = "Slave" =>
                     db'[x].read_only /\ ~db'[x].events
      BY <2>1, <3>2, <3>4 DEF RoundOK
    <3>7. calm => \A x \in loop'.hosts : role[x] = "Slave"
      BY <2>1, <3>2 DEF RoundOK
    <3> QED BY <2>1, <2>2, <3>1, <3>2, <3>5, <3>6, <3>7 DEF RoundOK
  <2> QED BY <1>4, <2>3, <2>4 DEF Masters!SetSlave
<1>5. CASE Masters!NextRound
  <2>1. loop'.pc = "master" /\ UNCHANGED <<db, role, setup, wait, calm>> /\ Masters!TypeOK'
    BY <1>5 DEF Masters!NextRound, Masters!TypeOK
  <2> QED BY <2>1 DEF RoundOK, OneMaster
<1> QED BY <1>1, <1>2, <1>3, <1>4, <1>5

LEMMA WaitRound == ASSUME MastersAssumption, RoundInv, Masters!Wait PROVE RoundInv'
<1>1. UNCHANGED <<db, role, setup, calm>>
  BY DEF Masters!Wait
<1>2. loop' = loop \/ loop' = [loop EXCEPT !.pc = "master"]
  BY DEF Masters!Wait
<1>3. wait' \in [rounds : 0..MaxWait, started : BOOLEAN]
  <2>1. CASE wait' = [wait EXCEPT !.started = TRUE]
    BY <2>1 DEF RoundInv, Masters!TypeOK
  <2>2. CASE wait' = [wait EXCEPT !.rounds = @ + 1] /\ wait.rounds # MaxWait
    <3>1. wait.rounds \in 0..MaxWait
      BY DEF RoundInv, Masters!TypeOK
    <3>2. wait.rounds + 1 \in 0..MaxWait
      BY <2>2, <3>1, MastersAssumption DEF Masters!FailoverAssumption
    <3> QED BY <2>2, <3>2 DEF RoundInv, Masters!TypeOK
  <2> QED BY <2>1, <2>2 DEF Masters!Wait
<1>4. loop' = loop \/ loop'.pc = "master"
  BY <1>2 DEF RoundInv, Masters!TypeOK
<1>5. Masters!TypeOK'
  BY <1>1, <1>2, <1>3 DEF RoundInv, Masters!TypeOK
<1>6. OneMaster' /\ RoundOK'
  BY <1>1, <1>4 DEF RoundInv, OneMaster, RoundOK
<1> QED BY <1>5, <1>6 DEF RoundInv

\* Whatever else happens ends the calm.
LEMMA DisturbedRound ==
    ASSUME RoundInv,
           \/ Masters!SetupStep \/ Masters!Monitor
           \/ \E s \in Masters!Servers : Masters!Crash(s) \/ Masters!Restart(s)
    PROVE  RoundInv'
<1> USE DEF RoundInv
<1>1. CASE Masters!SetupStep
  <2> DEFINE s == IF setup \in {1, 4} THEN First ELSE Second
  <2>0. setup \in 1..4 /\ (setup' = 1 \/ setup' = 5 \/ setup' = setup + 1)
    BY <1>1 DEF Masters!SetupStep
  <2>1. /\ setup' \in 1..5
        /\ UNCHANGED <<role, loop, wait>> /\ calm' = FALSE
    BY <1>1, <2>0 DEF Masters!SetupStep
  <2>2. \/ db' = db
        \/ \E n \in [up : BOOLEAN, read_only : BOOLEAN, events : BOOLEAN, repl : BOOLEAN] :
              db' = [db EXCEPT ![s] = n]
    <3>1. s \in Masters!Servers
      BY DEF Masters!Servers
    <3>2. /\ [db[s] EXCEPT !.repl = TRUE] \in [up : BOOLEAN, read_only : BOOLEAN, events : BOOLEAN, repl : BOOLEAN]
          /\ [db[s] EXCEPT !.read_only = FALSE] \in [up : BOOLEAN, read_only : BOOLEAN, events : BOOLEAN, repl : BOOLEAN]
          /\ [db[s] EXCEPT !.events = TRUE] \in [up : BOOLEAN, read_only : BOOLEAN, events : BOOLEAN, repl : BOOLEAN]
      BY <3>1, ServerTypes
    <3> DEFINE n == IF setup \in {1, 2} THEN [db[s] EXCEPT !.repl = TRUE]
                    ELSE IF setup = 3 THEN [db[s] EXCEPT !.read_only = FALSE]
                    ELSE [db[s] EXCEPT !.events = TRUE]
    <3>3. db' = db \/ db' = [db EXCEPT ![s] = n]
      BY <1>1, Zenon DEF Masters!SetupStep
    <3>4. n \in [up : BOOLEAN, read_only : BOOLEAN, events : BOOLEAN, repl : BOOLEAN]
      BY <3>2
    <3> QED BY <3>3, <3>4
  <2>3. db' \in [Masters!Servers -> [up : BOOLEAN, read_only : BOOLEAN, events : BOOLEAN, repl : BOOLEAN]]
    BY <2>2 DEF Masters!TypeOK
  <2>4. Masters!TypeOK'
    BY <2>1, <2>3 DEF Masters!TypeOK
  <2> QED BY <2>1, <2>4 DEF OneMaster, RoundOK
<1>2. CASE Masters!Monitor
  BY <1>2 DEF Masters!Monitor, Masters!TypeOK, OneMaster, RoundOK
<1>3. ASSUME NEW s \in Masters!Servers, Masters!Crash(s) \/ Masters!Restart(s)
      PROVE  RoundInv'
  <2>1. UNCHANGED <<role, loop, setup, wait>> /\ ~calm' /\ calm' \in BOOLEAN
    BY <1>3 DEF Masters!Crash, Masters!Restart
  <2>2. db' \in [Masters!Servers -> [up : BOOLEAN, read_only : BOOLEAN, events : BOOLEAN,
                                     repl : BOOLEAN]]
    <3>1. [db[s] EXCEPT !.up = FALSE] \in [up : BOOLEAN, read_only : BOOLEAN, events : BOOLEAN, repl : BOOLEAN]
      BY ServerTypes
    <3>2. [Masters!Fresh(s) EXCEPT !.repl = db[s].repl]
             \in [up : BOOLEAN, read_only : BOOLEAN, events : BOOLEAN, repl : BOOLEAN]
      BY ServerTypes DEF Masters!Fresh
    <3>3. \E n \in [up : BOOLEAN, read_only : BOOLEAN, events : BOOLEAN, repl : BOOLEAN] :
             db' = [db EXCEPT ![s] = n]
      BY <1>3, <3>1, <3>2 DEF Masters!Crash, Masters!Restart
    <3> QED BY <3>3 DEF Masters!TypeOK
  <2> QED BY <2>1, <2>2 DEF Masters!TypeOK, OneMaster, RoundOK
<1> QED BY <1>1, <1>2, <1>3

LEMMA AlwaysRoundInv == Masters!Spec => []RoundInv
<1>1. Masters!Init => RoundInv
  <2> SUFFICES ASSUME Masters!Init PROVE RoundInv
    OBVIOUS
  <2>1. \A s \in Masters!Servers : Masters!Fresh(s) \in [up : BOOLEAN, read_only : BOOLEAN,
                                                      events : BOOLEAN, repl : BOOLEAN]
    BY DEF Masters!Fresh
  <2>2. db \in [Masters!Servers -> [up : BOOLEAN, read_only : BOOLEAN, events : BOOLEAN, repl : BOOLEAN]]
    BY <2>1 DEF Masters!Init
  <2>3. role \in [Masters!Servers -> Masters!Roles] /\ OneMaster
    BY DEF Masters!Init, Masters!Roles, Masters!Servers, OneMaster
  <2>4. wait \in [rounds : 0..MaxWait, started : BOOLEAN]
    BY MastersAssumption DEF Masters!Init, Masters!FailoverAssumption
  <2>5. setup \in 1..5
    BY DEF Masters!Init
  <2>7. ~calm /\ calm \in BOOLEAN
    BY Zenon DEF Masters!Init
  <2>6. loop \in [pc : {"off", "master", "setMaster", "slaves", "setSlaves", "sleep"},
                 hosts : SUBSET Masters!Servers]
    BY DEF Masters!Init
  <2> QED BY <2>2, <2>3, <2>4, <2>5, <2>6, <2>7 DEF RoundInv, RoundOK, Masters!TypeOK
<1>2. RoundInv /\ [Masters!Next]_masterState => RoundInv'
  <2> SUFFICES ASSUME RoundInv, [Masters!Next]_masterState PROVE RoundInv'
    OBVIOUS
  <2>1. CASE UNCHANGED masterState
    BY <2>1 DEF masterState, RoundInv, Masters!TypeOK, OneMaster, RoundOK
  <2> QED BY <2>1, LoopRound, WaitRound, DisturbedRound, MastersAssumption DEF Masters!Next
<1> QED BY <1>1, <1>2, PTL DEF Masters!Spec, Masters!vars, masterState

\* When nothing changed while setsql.sh made a round, the servers are at its end
\* as the monitor lists them, whatever failovers, restarts, half rounds and
\* set-up steps came before, and however often MaxScale was made to wait.
THEOREM ServersSettle == Masters!Spec => []MastersSettled
<1>1. RoundInv => MastersSettled
  BY DEF RoundInv, RoundOK, MastersSettled, Masters!SettledAfterRound, Masters!AsListed
<1> QED BY <1>1, AlwaysRoundInv, PTL
-----------------------------------------------------------------------------
(***************************************************************************)
(* The partitions of radpostauth                                           *)
(***************************************************************************)

\* The ages there can be when the clock was set back b days, the rows of such ages,
\* and that a row is new or at least as old as the partition it is in says.
Ages(b) == {n \in Int : 0 - b <= n /\ n <= Retain + MaxBack + 1}
DayRow(b) == [at : {"none", "max", "part", "gone"}, part : Ages(b), age : Ages(b)]
PartFits(q) ==
    /\ q.at = "part" => q.age >= q.part
    /\ q.at = "none" => q.age = 0

DayInv ==
    /\ backs \in 0..MaxBack /\ ran \in BOOLEAN
    /\ parts \subseteq Ages(backs)
    /\ postauth \in [PostAuth -> DayRow(backs)]
    /\ \A r \in PostAuth : PartFits(postauth[r])

LEMMA AgeRange ==
    /\ Retain \in Nat /\ MaxBack \in Nat /\ Days!Old = Retain + MaxBack + 1
    /\ Days!Age = Ages(MaxBack)
    /\ \A b \in 0..MaxBack : 0 \in Ages(b) /\ Ages(b) \subseteq Ages(MaxBack)
    /\ \A b \in 0..MaxBack : \A n \in Ages(b) : n \in Int
BY DaysAssumption DEF Days!PartitionAssumption, Days!Old, Days!Age, Ages

LEMMA LaterAge ==
    ASSUME NEW b \in 0..MaxBack, NEW n \in Ages(b)
    PROVE  /\ Days!Later(n) \in Ages(b)
           /\ \A m \in Ages(b) : m >= n => Days!Later(m) >= Days!Later(n)
BY AgeRange DEF Days!Later, Ages

LEMMA EarlierAge ==
    ASSUME NEW b \in 0..MaxBack, NEW n \in Ages(b)
    PROVE  /\ Days!Earlier(n) \in Ages(b + 1)
           /\ \A m \in Ages(b) : m >= n => Days!Earlier(m) >= Days!Earlier(n)
BY AgeRange DEF Days!Earlier, Ages

LEMMA WiderRow ==
    ASSUME NEW b \in 0..MaxBack
    PROVE  Ages(b) \subseteq Ages(b + 1) /\ DayRow(b) \subseteq DayRow(b + 1)
<1>1. Ages(b) \subseteq Ages(b + 1)
  BY AgeRange DEF Ages
<1> QED BY <1>1 DEF DayRow

\* What a step may do to one row, with the clock set back b days after it.
DayStep(q, new, b) ==
    /\ new \in DayRow(b) /\ PartFits(new)
    /\ backs = 0 /\ q.at \in {"max", "part"} /\ new.at = "gone" => q.age > Retain

LEMMA RowKept ==
    ASSUME NEW b, NEW q \in DayRow(b), PartFits(q)
    PROVE  DayStep(q, q, b)
BY DEF DayStep, DayRow

LEMMA RowInserted ==
    ASSUME DayInv, NEW r \in PostAuth, Days!Insert(r)
    PROVE  \A q \in PostAuth : DayStep(postauth[q], postauth'[q], backs)
<1>1. postauth[r].at = "none" /\ postauth[r] \in DayRow(backs)
  BY DEF Days!Insert, DayInv
<1>2. ASSUME NEW n, DayStep(postauth[r], n, backs), postauth' = [postauth EXCEPT ![r] = n]
      PROVE  \A q \in PostAuth : DayStep(postauth[q], postauth'[q], backs)
  BY <1>2, RowKept DEF DayInv
<1>3. CASE postauth' = [postauth EXCEPT ![r].at = "max"]
  <2>1. DayStep(postauth[r], [postauth[r] EXCEPT !.at = "max"], backs)
    BY <1>1 DEF DayStep, DayRow, PartFits
  <2> QED BY <1>2, <1>3, <2>1
<1>4. ASSUME NEW p \in parts, Days!Below(0, p), postauth' = [postauth EXCEPT ![r].at = "part", ![r].part = p]
      PROVE  \A q \in PostAuth : DayStep(postauth[q], postauth'[q], backs)
  <2> DEFINE n == [postauth[r] EXCEPT !.at = "part", !.part = p]
  <2>1. p \in Ages(backs) /\ p \in Int /\ p <= 0
    BY <1>4, AgeRange DEF Days!Below, DayInv
  <2>2. n \in DayRow(backs) /\ n.at = "part" /\ n.part = p /\ n.age = postauth[r].age
    BY <1>1, <2>1 DEF DayRow
  <2>3. postauth' = [postauth EXCEPT ![r] = n]
    BY <1>4 DEF DayInv
  <2>4. postauth[r].age \in Int /\ postauth[r].age >= 0
    BY <1>1 DEF DayInv, PartFits
  <2> HIDE DEF n
  <2>5. DayStep(postauth[r], n, backs)
    BY <1>1, <2>1, <2>2, <2>4 DEF DayStep, PartFits
  <2> QED BY <1>2, <2>3, <2>5
<1> QED BY <1>3, <1>4 DEF Days!Insert

LEMMA RowManaged ==
    ASSUME DayInv, Days!ManagePartitions, NEW q \in PostAuth
    PROVE  DayStep(postauth[q], postauth'[q], backs)
<1> DEFINE new == Days!NeedsPartition(parts)
<1>1. postauth[q] \in DayRow(backs) /\ PartFits(postauth[q]) /\ backs \in 0..MaxBack
  BY DEF DayInv
<1>2. postauth'[q] = IF postauth[q].at = "part" /\ Days!Outdated(postauth[q].part)
                THEN [postauth[q] EXCEPT !.at = "gone"] ELSE Days!Reorganized(q, new)
  BY DEF Days!ManagePartitions
<1>3. CASE postauth[q].at = "part" /\ Days!Outdated(postauth[q].part)
  <2>1. postauth'[q] \in DayRow(backs) /\ postauth'[q].at = "gone"
    BY <1>1, <1>2, <1>3 DEF DayRow
  <2>2. ASSUME backs = 0 PROVE postauth[q].age > Retain
    <3>1. postauth[q].part \in Ages(0) /\ postauth[q].age \in Ages(0) /\ postauth[q].age >= postauth[q].part
      BY <1>1, <1>3, <2>2 DEF DayRow, PartFits
    <3>2. postauth[q].part > Retain
      BY <1>3, <3>1, AgeRange DEF Ages, Days!Outdated
    <3> QED BY <3>1, <3>2, AgeRange DEF Ages
  <2> QED BY <2>1, <2>2 DEF DayStep, PartFits
<1>4. CASE postauth'[q] = postauth[q]
  BY <1>1, <1>4, RowKept
<1>5. CASE postauth[q].at = "max" /\ postauth'[q] = [postauth[q] EXCEPT !.at = "part", !.part = 0] /\ postauth[q].age >= 0
  <2>1. 0 \in Ages(backs)
    BY <1>1, AgeRange
  <2>2. postauth'[q] \in DayRow(backs) /\ postauth'[q].at = "part" /\ postauth'[q].part = 0 /\ postauth'[q].age = postauth[q].age
    BY <1>1, <1>5, <2>1 DEF DayRow
  <2> QED BY <1>5, <2>2 DEF DayStep, PartFits
<1> QED BY <1>2, <1>3, <1>4, <1>5 DEF Days!Reorganized, Days!Below

\* A day that passes and one the clock is set back do the same to a row: its two
\* ages stay in order.
LEMMA RowShifted ==
    ASSUME DayInv, NEW b, DayRow(backs) \subseteq DayRow(b), NEW q \in PostAuth,
           NEW age \in Ages(b), NEW part \in Ages(b), postauth[q].age >= postauth[q].part => age >= part,
           postauth'[q] = CASE postauth[q].at = "max" -> [postauth[q] EXCEPT !.age = age]
                       [] postauth[q].at = "part" -> [postauth[q] EXCEPT !.age = age, !.part = part]
                       [] OTHER -> postauth[q]
    PROVE  DayStep(postauth[q], postauth'[q], b)
<1>1. postauth[q] \in DayRow(backs) /\ postauth[q] \in DayRow(b) /\ PartFits(postauth[q])
  BY DEF DayInv
<1>2. CASE postauth[q].at = "max"
  <2>1. postauth'[q] = [postauth[q] EXCEPT !.age = age]
    BY <1>2
  <2>2. postauth'[q] \in DayRow(b) /\ postauth'[q].at = "max"
    BY <1>1, <1>2, <2>1 DEF DayRow
  <2> QED BY <2>2 DEF DayStep, PartFits
<1>3. CASE postauth[q].at = "part"
  <2>1. postauth'[q] = [postauth[q] EXCEPT !.age = age, !.part = part]
    BY <1>3
  <2>2. /\ postauth'[q] \in DayRow(b) /\ postauth'[q].at = "part"
        /\ postauth'[q].age = age /\ postauth'[q].part = part
    BY <1>1, <1>3, <2>1 DEF DayRow
  <2>3. age >= part
    BY <1>1, <1>3 DEF PartFits
  <2> QED BY <2>2, <2>3 DEF DayStep, PartFits
<1>4. CASE postauth[q].at \notin {"max", "part"}
  BY <1>1, <1>4, RowKept
<1> QED BY <1>2, <1>3, <1>4

\* Every step does to each row what DayStep allows, and keeps the rest in its types.
LEMMA DaySteps ==
    ASSUME DayInv, [Days!Next]_dayState
    PROVE  DayInv' /\ \A q \in PostAuth : DayStep(postauth[q], postauth'[q], backs')
<1>1. backs \in 0..MaxBack /\ parts \subseteq Ages(backs) /\ ran \in BOOLEAN
  BY DEF DayInv
<1>2. ASSUME \A q \in PostAuth : DayStep(postauth[q], postauth'[q], backs'), postauth' = [q \in PostAuth |-> postauth'[q]],
             parts' \subseteq Ages(backs'), ran' \in BOOLEAN, backs' \in 0..MaxBack
      PROVE  DayInv' /\ \A q \in PostAuth : DayStep(postauth[q], postauth'[q], backs')
  <2>1. \A q \in PostAuth : postauth'[q] \in DayRow(backs') /\ PartFits(postauth'[q])
    BY <1>2 DEF DayStep
  <2>2. postauth' \in [PostAuth -> DayRow(backs')]
    BY <1>2, <2>1
  <2> QED BY <1>2, <2>1, <2>2 DEF DayInv
<1>3. CASE UNCHANGED dayState
  <2>1. \A q \in PostAuth : DayStep(postauth[q], postauth[q], backs)
    BY RowKept DEF DayInv
  <2>2. postauth = [q \in PostAuth |-> postauth[q]]
    BY DEF DayInv
  <2> QED BY <1>1, <1>2, <1>3, <2>1, <2>2 DEF dayState
<1>4. ASSUME NEW r \in PostAuth, Days!Insert(r)
      PROVE  DayInv' /\ \A q \in PostAuth : DayStep(postauth[q], postauth'[q], backs')
  <2>1. postauth' = [q \in PostAuth |-> postauth'[q]] /\ UNCHANGED <<parts, ran, backs>>
    BY <1>4 DEF Days!Insert, DayInv
  <2> QED BY <1>1, <1>2, <1>4, <2>1, RowInserted
<1>5. CASE Days!ManagePartitions
  <2>1. postauth' = [q \in PostAuth |-> postauth'[q]] /\ ran' = TRUE /\ backs' = backs
    BY <1>5 DEF Days!ManagePartitions
  <2>2. parts' \subseteq Ages(backs)
    BY <1>1, <1>5, AgeRange DEF Days!ManagePartitions
  <2> QED BY <1>1, <1>2, <1>5, <2>1, <2>2, RowManaged
<1>6. CASE Days!NextDay
  <2>1. postauth' = [q \in PostAuth |-> postauth'[q]] /\ ran' = FALSE /\ backs' = backs
    BY <1>6 DEF Days!NextDay, Days!Shift
  <2>2. parts' \subseteq Ages(backs)
    BY <1>1, <1>6, LaterAge DEF Days!NextDay, Days!Shift
  <2>3. ASSUME NEW q \in PostAuth PROVE DayStep(postauth[q], postauth'[q], backs)
    <3>1. postauth[q].age \in Ages(backs) /\ postauth[q].part \in Ages(backs)
      BY DEF DayInv, DayRow
    <3>2. /\ Days!Later(postauth[q].age) \in Ages(backs) /\ Days!Later(postauth[q].part) \in Ages(backs)
          /\ postauth[q].age >= postauth[q].part => Days!Later(postauth[q].age) >= Days!Later(postauth[q].part)
      BY <1>1, <3>1, LaterAge
    <3> QED BY <1>6, <3>2, RowShifted DEF Days!NextDay, Days!Shift
  <2> QED BY <1>1, <1>2, <2>1, <2>2, <2>3
<1>7. CASE Days!ClockBack
  <2>1. backs < MaxBack /\ backs' = backs + 1 /\ Days!Shift(Days!Earlier) /\ ran' = FALSE
    BY <1>7 DEF Days!ClockBack
  <2>2. backs + 1 \in 0..MaxBack
    BY <1>1, <2>1, AgeRange
  <2>3. postauth' = [q \in PostAuth |-> postauth'[q]]
    BY <2>1 DEF Days!Shift
  <2>4. parts' \subseteq Ages(backs + 1)
    BY <1>1, <2>1, EarlierAge DEF Days!Shift
  <2>5. ASSUME NEW q \in PostAuth PROVE DayStep(postauth[q], postauth'[q], backs + 1)
    <3>1. postauth[q].age \in Ages(backs) /\ postauth[q].part \in Ages(backs)
      BY DEF DayInv, DayRow
    <3>2. /\ Days!Earlier(postauth[q].age) \in Ages(backs + 1)
          /\ Days!Earlier(postauth[q].part) \in Ages(backs + 1)
          /\ postauth[q].age >= postauth[q].part => Days!Earlier(postauth[q].age) >= Days!Earlier(postauth[q].part)
      BY <1>1, <3>1, EarlierAge
    <3> QED BY <1>1, <2>1, <3>2, WiderRow, RowShifted DEF Days!Shift
  <2> QED BY <1>2, <2>1, <2>2, <2>3, <2>4, <2>5
<1> QED BY <1>3, <1>4, <1>5, <1>6, <1>7 DEF Days!Next

\* event_of_day drops a row of radpostauth only when it is older than the days
\* that are to be kept, whichever days the event did not run and in whatever
\* partition the row ended up in for it; only a clock set back can change that.
THEOREM OnlyOldRowsDropped == Days!Spec => RowsKept
<1>1. Days!Init => DayInv
  <2> SUFFICES ASSUME Days!Init PROVE DayInv
    OBVIOUS
  <2>1. parts \subseteq Ages(0)
    BY AgeRange DEF Days!Init, Ages
  <2>2. [at |-> "none", part |-> 0, age |-> 0] \in DayRow(0)
    BY AgeRange DEF DayRow, Ages
  <2>3. postauth \in [PostAuth -> DayRow(0)] /\ \A q \in PostAuth : postauth[q].at = "none" /\ postauth[q].age = 0
    BY <2>2 DEF Days!Init
  <2>4. ran \in BOOLEAN
    BY Zenon DEF Days!Init
  <2>5. backs = 0 /\ 0 \in 0..MaxBack
    BY AgeRange DEF Days!Init
  <2> QED BY <2>1, <2>3, <2>4, <2>5 DEF DayInv, PartFits
<1>2. DayInv /\ [Days!Next]_dayState => DayInv'
  BY DaySteps
<1>3. DayInv /\ [Days!Next]_dayState => [backs = 0 => Days!DropsOnlyOld]_dayState
  BY DaySteps DEF DayStep, Days!DropsOnlyOld, Days!Stored
<1>4. DayInv => Days!TypeOK
  <2> SUFFICES ASSUME DayInv PROVE Days!TypeOK
    OBVIOUS
  <2>1. Ages(backs) \subseteq Days!Age
    BY AgeRange DEF DayInv
  <2> QED BY <2>1 DEF DayInv, DayRow, Days!TypeOK
<1> QED BY <1>1, <1>2, <1>3, <1>4, PTL DEF Days!Spec, Days!vars, dayState, RowsKept

-----------------------------------------------------------------------------
(***************************************************************************)
(* The organisation tree.  The subtree of r in a set of nodes that holds   *)
(* its nodes' parents is what the set has in common with the subtree of r  *)
(* among all nodes, which no step changes.                                 *)
(***************************************************************************)
Under(r) == Org!AllSubNodes(Node, r)
Rooted(T) == \A n \in T : Pid[n] \in T \cup {Top}

\* A list a browser may show or send: nodes of its subtree with their parents.
ListFits(L, a) ==
    /\ RootOf[a] \in L /\ L \subseteq Org!Territory(a)
    /\ \A n \in L \ {RootOf[a]} : Pid[n] \in L

LEMMA SubSmallest ==
    ASSUME NEW T \in SUBSET Node, NEW r, NEW S \in SUBSET T,
           \A m \in T : Pid[m] \in S \cup {r} => m \in S
    PROVE  Org!AllSubNodes(T, r) \subseteq S
BY DEF Org!AllSubNodes

LEMMA SubStep ==
    ASSUME NEW T \in SUBSET Node, NEW r, NEW n \in T, Pid[n] \in Org!AllSubNodes(T, r) \cup {r}
    PROVE  n \in Org!AllSubNodes(T, r)
<1> SUFFICES ASSUME NEW S \in SUBSET T, \A m \in T : Pid[m] \in S \cup {r} => m \in S
             PROVE  n \in S
  BY DEF Org!AllSubNodes
<1>1. Org!AllSubNodes(T, r) \subseteq S
  BY SubSmallest
<1> QED BY <1>1

LEMMA SubNodes == ASSUME NEW T, NEW r PROVE Org!AllSubNodes(T, r) \subseteq T
BY DEF Org!AllSubNodes

LEMMA SubParent ==
    ASSUME NEW T \in SUBSET Node, NEW r, NEW n \in Org!AllSubNodes(T, r)
    PROVE  Pid[n] \in Org!AllSubNodes(T, r) \cup {r}
<1> DEFINE A == Org!AllSubNodes(T, r)
           S == {m \in A : Pid[m] \in A \cup {r}}
<1>1. A \subseteq T /\ S \subseteq A
  BY SubNodes
<1>2. ASSUME NEW m \in T, Pid[m] \in S \cup {r} PROVE m \in S
  <2>1. m \in A
    BY <1>1, <1>2, SubStep
  <2> QED BY <2>1, <1>2, <1>1
<1>3. A \subseteq S
  <2>1. S \in SUBSET T
    BY <1>1
  <2> HIDE DEF S
  <2> QED BY <2>1, <1>2, SubSmallest
<1> QED BY <1>3

LEMMA SubRooted ==
    ASSUME NEW T \in SUBSET Node, Rooted(T), NEW r \in Node
    PROVE  Org!AllSubNodes(T, r) = T \cap Under(r)
<1>1. Org!AllSubNodes(T, r) \subseteq T \cap Under(r)
  <2> DEFINE S == T \cap Under(r)
  <2>1. ASSUME NEW m \in T, Pid[m] \in S \cup {r} PROVE m \in S
    BY <2>1, SubStep DEF Under
  <2>2. S \in SUBSET T
    OBVIOUS
  <2> HIDE DEF S
  <2>3. Org!AllSubNodes(T, r) \subseteq S
    BY <2>1, <2>2, SubSmallest
  <2> QED BY <2>3 DEF S
<1>2. T \cap Under(r) \subseteq Org!AllSubNodes(T, r)
  <2> DEFINE A == Org!AllSubNodes(T, r)
             S == {n \in Node : n \in T => n \in A}
  <2>1. A \subseteq T
    BY SubNodes
  <2>2. ASSUME NEW m \in Node, Pid[m] \in S \cup {r} PROVE m \in S
    <3> SUFFICES ASSUME m \in T PROVE m \in A
      OBVIOUS
    <3>1. Pid[m] \in Node /\ Top \notin Node
      BY <2>2, SidebarAssumption DEF Org!TreeAssumption
    <3>2. Pid[m] \in T
      BY <3>1 DEF Rooted
    <3>3. Pid[m] \in A \cup {r}
      BY <2>2, <3>2
    <3> QED BY <3>3, SubStep
  <2>3. S \in SUBSET Node
    OBVIOUS
  <2>4. Under(r) \subseteq S
    <3> HIDE DEF S
    <3> QED BY <2>2, <2>3, SubSmallest DEF Under
  <2> QED BY <2>4
<1> QED BY <1>1, <1>2

\* No node is below itself.
LEMMA NotUnderItself == ASSUME NEW r \in Node PROVE r \notin Under(r)
<1> SUFFICES ASSUME r \in Under(r) PROVE FALSE
  OBVIOUS
<1>1. Under(r) \subseteq Node
  BY SubNodes DEF Under
<1>2. PICK n \in Under(r) : Pid[n] \notin Under(r)
  BY <1>1, SidebarAssumption DEF Org!TreeAssumption
<1>3. Pid[n] \in Under(r) \cup {r}
  BY SubParent DEF Under
<1> QED BY <1>2, <1>3

LEMMA Territories ==
    ASSUME NEW a \in Admin
    PROVE  /\ Org!Territory(a) \subseteq Node
           /\ RootOf[a] \in Org!Territory(a)
           /\ Pid[RootOf[a]] \notin Org!Territory(a)
           /\ \A n \in Node : Pid[n] \in Org!Territory(a) => n \in Org!Territory(a)
           /\ \A n \in Org!Territory(a) \ {RootOf[a]} : Pid[n] \in Org!Territory(a)
<1>1. RootOf[a] \in Node /\ Org!Territory(a) = Under(RootOf[a]) \cup {RootOf[a]}
  BY SidebarAssumption DEF Org!TreeAssumption, Org!Territory, Under
<1>2. Under(RootOf[a]) \subseteq Node
  BY SubNodes DEF Under
<1>3. Pid[RootOf[a]] \notin Org!Territory(a)
  <2> SUFFICES ASSUME Pid[RootOf[a]] \in Org!Territory(a) PROVE FALSE
    OBVIOUS
  <2>1. RootOf[a] \in Under(RootOf[a])
    BY <1>1, SubStep DEF Under
  <2> QED BY <1>1, <2>1, NotUnderItself
<1>4. ASSUME NEW n \in Node, Pid[n] \in Org!Territory(a) PROVE n \in Org!Territory(a)
  BY <1>1, <1>4, SubStep DEF Under
<1>5. ASSUME NEW n \in Org!Territory(a) \ {RootOf[a]} PROVE Pid[n] \in Org!Territory(a)
  BY <1>1, SubParent DEF Under
<1> QED BY <1>1, <1>2, <1>3, <1>4, <1>5

\* What GetTreeNodeList answers.
LEMMA LoadedList ==
    ASSUME NEW T \in SUBSET Node, Rooted(T), NEW a \in Admin, RootOf[a] \in T
    PROVE  /\ Org!AllSubNodes(T, RootOf[a]) \cup (T \cap {RootOf[a]}) = T \cap Org!Territory(a)
           /\ ListFits(T \cap Org!Territory(a), a)
<1>1. RootOf[a] \in Node /\ Org!Territory(a) = Under(RootOf[a]) \cup {RootOf[a]}
  BY SidebarAssumption DEF Org!TreeAssumption, Org!Territory, Under
<1>2. Org!AllSubNodes(T, RootOf[a]) = T \cap Under(RootOf[a])
  BY <1>1, SubRooted
<1>3. ASSUME NEW n \in (T \cap Org!Territory(a)) \ {RootOf[a]}
      PROVE  Pid[n] \in T \cap Org!Territory(a)
  <2>1. Pid[n] \in Org!Territory(a) /\ Org!Territory(a) \subseteq Node
    BY Territories
  <2>2. Pid[n] # Top
    BY <2>1, SidebarAssumption DEF Org!TreeAssumption
  <2> QED BY <2>1, <2>2 DEF Rooted
<1> QED BY <1>1, <1>2, <1>3 DEF ListFits

\* The only node of such a list without its parent is the root.
LEMMA ListRoot ==
    ASSUME NEW a \in Admin, NEW L, ListFits(L, a)
    PROVE  Org!RootIds(L) = {RootOf[a]}
BY Territories DEF Org!RootIds, ListFits

\* A save brings the subtree to its list and leaves all else.
SaveFits(p, T) ==
    /\ T \in SUBSET Node /\ Rooted(T)
    /\ T \cap Org!Territory(p.admin) = p.list
    /\ T \ Org!Territory(p.admin) = tree \ Org!Territory(p.admin)

LEMMA SavedTree ==
    ASSUME NEW p \in Org!Post, ListFits(p.list, p.admin),
           tree \in SUBSET Node, Rooted(tree), Rooted(p.seen),
           RootOf[p.admin] \in tree,
           p.seen \cap Org!Territory(p.admin) = tree \cap Org!Territory(p.admin)
    PROVE  /\ (p.list \ p.seen) \cap tree = {}
           /\ SaveFits(p, Org!Saved(p, RootOf[p.admin]))
<1> DEFINE a == p.admin
           R == RootOf[a]
           D == Org!Territory(a)
           T == Org!Saved(p, R)
<1>1. a \in Admin /\ p.list \in SUBSET Node /\ p.seen \in SUBSET Node
  BY DEF Org!Post
<1>2. R \in Node /\ D = Under(R) \cup {R}
  BY <1>1, SidebarAssumption DEF Org!TreeAssumption, Org!Territory, Under
<1>3. R \in p.list /\ p.list \subseteq D /\ \A n \in p.list \ {R} : Pid[n] \in p.list
  BY DEF ListFits
<1>4. Org!AllSubNodes(p.seen, R) = p.seen \cap Under(R)
  BY <1>1, <1>2, SubRooted
<1>5. T = (tree \cup (p.list \ p.seen)) \ ((p.seen \cap Under(R)) \ p.list)
  BY <1>4 DEF Org!Saved
<1>6. p.seen \cap D = tree \cap D
  OBVIOUS
<1>7. (p.list \ p.seen) \cap tree = {}
  BY <1>3, <1>6
<1>8. T \cap D = p.list /\ T \ D = tree \ D /\ T \in SUBSET Node
  <2> HIDE DEF T, D, R, a
  <2> QED BY <1>1, <1>2, <1>3, <1>5, <1>6
<1>9. ASSUME NEW n \in T PROVE Pid[n] \in T \cup {Top}
  <2>1. CASE n \in D /\ n # R
    BY <2>1, <1>3, <1>8
  <2>2. CASE n = R
    <3>1. Pid[n] \notin D
      BY <2>2, <1>1, Territories
    <3> QED BY <3>1, <2>2, <1>8 DEF Rooted
  <2>3. CASE n \notin D
    <3>1. Pid[n] \notin D
      BY <2>3, <1>1, <1>8, Territories
    <3> QED BY <3>1, <2>3, <1>8 DEF Rooted
  <2> QED BY <2>1, <2>2, <2>3
<1> QED BY <1>7, <1>8, <1>9 DEF SaveFits, Rooted

(***************************************************************************)
(* Types, and that every node in sight has been chosen by somebody.        *)
(***************************************************************************)
TreeTypeInv ==
    /\ Org!TypeOK
    /\ tree \subseteq used
    /\ \A a \in Admin : view[a] \subseteq used
    /\ \A p \in posts : p.list \subseteq used

LEMMA TreeTypes == Org!Spec => []TreeTypeInv
<1>1. Org!Init => TreeTypeInv
  <2> SUFFICES ASSUME Org!Init PROVE TreeTypeInv
    OBVIOUS
  <2>1. \A a \in Admin : Org!TreeNodeList(RootOf[a]) \subseteq Existing
    BY SubNodes DEF Org!TreeNodeList, Org!Init
  <2> QED BY <2>1, SidebarAssumption DEF Org!Init, Org!TypeOK, TreeTypeInv, Org!TreeAssumption
<1>2. TreeTypeInv /\ [Org!Next]_(Org!vars) => TreeTypeInv'
  <2> SUFFICES ASSUME TreeTypeInv, [Org!Next]_(Org!vars)
               PROVE  TreeTypeInv'
    OBVIOUS
  <2> USE DEF Org!TypeOK, TreeTypeInv
  <2>1. ASSUME NEW a \in Admin, Org!Load(a) PROVE TreeTypeInv'
    <3>1. Org!TreeNodeList(RootOf[a]) \subseteq tree
      BY SubNodes DEF Org!TreeNodeList
    <3> QED BY <2>1, <3>1 DEF Org!Load
  <2>2. ASSUME NEW a \in Admin, NEW L \in SUBSET Node, Org!Send(a, L), L \subseteq used',
               used \subseteq used'
        PROVE  /\ view' \in [Admin -> SUBSET Node] /\ posts' \subseteq Org!Post
               /\ \A b \in Admin : view'[b] \subseteq used'
               /\ \A p \in posts' : p.list \subseteq used'
    BY <2>2 DEF Org!Send, Org!Post
  <2>3. ASSUME NEW a \in Admin, Org!Rename(a) PROVE TreeTypeInv'
    BY <2>2, <2>3 DEF Org!Rename
  <2>4. ASSUME NEW a \in Admin, NEW n \in Node, Org!AppendNode(a, n) PROVE TreeTypeInv'
    <3>1. view[a] \cup {n} \subseteq used' /\ used \subseteq used' /\ view[a] \cup {n} \in SUBSET Node
      BY <2>4 DEF Org!AppendNode
    <3>2. Org!Send(a, view[a] \cup {n})
      BY <2>4 DEF Org!AppendNode
    <3>3. used' \subseteq Node /\ UNCHANGED <<tree, removed, attached>>
      BY <2>4 DEF Org!AppendNode
    <3> QED BY <2>2, <3>1, <3>2, <3>3
  <2>5. ASSUME NEW a \in Admin, NEW n \in Node, Org!Remove(a, n) PROVE TreeTypeInv'
    <3> DEFINE L == view[a] \ (Org!AllSubNodes(view[a], n) \cup {n})
    <3>1. L \subseteq used' /\ used \subseteq used' /\ L \in SUBSET Node
      BY <2>5 DEF Org!Remove
    <3>2. Org!Send(a, L)
      BY <2>5 DEF Org!Remove
    <3>3. removed' \subseteq used /\ UNCHANGED <<tree, used, attached>>
      BY <2>5 DEF Org!Remove
    <3> HIDE DEF L
    <3> QED BY <2>2, <3>1, <3>2, <3>3
  <2>6. ASSUME NEW p \in posts, Org!SaveBegin(p) PROVE TreeTypeInv'
    BY <2>6 DEF Org!SaveBegin, Org!Post
  <2>7. ASSUME NEW p \in posts, Org!SaveEnd(p) PROVE TreeTypeInv'
    <3>1. \A root : Org!Saved(p, root) \subseteq tree \cup p.list
      BY DEF Org!Saved
    <3> QED BY <2>7, <3>1 DEF Org!SaveEnd
  <2>8. ASSUME NEW n \in Node, Org!Attach(n) PROVE TreeTypeInv'
    BY <2>8 DEF Org!Attach
  <2>9. CASE Org!Prune
    BY <2>9 DEF Org!Prune
  <2>10. CASE UNCHANGED Org!vars
    BY <2>10 DEF Org!vars
  <2> QED BY <2>1, <2>3, <2>4, <2>5, <2>6, <2>7, <2>8, <2>9, <2>10 DEF Org!Next
<1> QED BY <1>1, <1>2, PTL DEF Org!Spec

(***************************************************************************)
(* The shape of the tree, of what browsers show and of what they send, as  *)
(* long as no save overlaps one of a subtree in common with it.            *)
(***************************************************************************)
Separate(p, q) == Org!Territory(p.admin) \cap Org!Territory(q.admin) = {}

\* What a save selected of its subtree is still so when it writes.
SeenFits(p, T) ==
    p.at = "open" =>
        /\ Rooted(p.seen)
        /\ p.seen \cap Org!Territory(p.admin) = T \cap Org!Territory(p.admin)

PostsFit(P, T) ==
    /\ IsFiniteSet(P)
    /\ \A p \in P : ListFits(p.list, p.admin) /\ SeenFits(p, T)
    /\ \A p, q \in P : p.at = "open" /\ q.at = "open" /\ p # q => Separate(p, q)
    /\ MaxPosts = 1 => \A p, q \in P : p.admin = q.admin => p = q

ShapeInv ==
    /\ Rooted(tree)
    /\ \A a \in Admin : RootOf[a] \in tree /\ ListFits(view[a], a)
    /\ PostsFit(posts, tree)

Tidy == Org!Apart \/ Org!Aligned

LEMMA TreeCardinality == ASSUME NEW S PROVE Org!Cardinality(S) = Cardinality(S)
BY DEF Org!Cardinality, Cardinality

\* A browser that waits for its saves sends when none is on its way.
LEMMA SendAlone ==
    ASSUME ShapeInv, NEW a, NEW L, Org!Send(a, L), MaxPosts = 1 PROVE Org!Mine(a) = {}
<1>1. IsFiniteSet(Org!Mine(a))
  BY FS_Subset DEF ShapeInv, PostsFit, Org!Mine
<1>2. Cardinality(Org!Mine(a)) \in Nat /\ Cardinality(Org!Mine(a)) < 1
  BY <1>1, FS_CardinalityType, TreeCardinality DEF Org!Send
<1>3. Cardinality(Org!Mine(a)) = 0
  BY <1>2
<1> QED BY <1>1, <1>3, FS_EmptySet

LEMMA SendShape ==
    ASSUME TreeTypeInv, ShapeInv, NEW a \in Admin, NEW L, ListFits(L, a), Org!Send(a, L),
           UNCHANGED tree
    PROVE  ShapeInv'
<1> DEFINE new == [admin |-> a, list |-> L, seen |-> {}, at |-> "sent"]
           P == posts'
<1>1. P = posts \cup {new}
  BY DEF Org!Send
<1>2. IsFiniteSet(P)
  BY <1>1, FS_AddElement DEF ShapeInv, PostsFit
<1>3. \A p \in P : ListFits(p.list, p.admin) /\ SeenFits(p, tree)
  BY <1>1 DEF ShapeInv, PostsFit, SeenFits
<1>4. \A p, q \in P : p.at = "open" /\ q.at = "open" /\ p # q => Separate(p, q)
  BY <1>1 DEF ShapeInv, PostsFit
<1>5. MaxPosts = 1 => Org!Mine(a) = {}
  BY SendAlone
<1>6. ASSUME MaxPosts = 1, NEW p \in P, NEW q \in P, p.admin = q.admin PROVE p = q
  <2>1. \A s \in posts : s.admin # a
    BY <1>5, <1>6 DEF Org!Mine
  <2>2. new.admin = a
    OBVIOUS
  <2> HIDE DEF new, P
  <2> QED BY <1>1, <1>6, <2>1, <2>2 DEF ShapeInv, PostsFit
<1>7. PostsFit(P, tree)
  BY <1>2, <1>3, <1>4, <1>6 DEF PostsFit
<1>8. \A b \in Admin : ListFits(view'[b], b)
  BY DEF ShapeInv, Org!Send, TreeTypeInv, Org!TypeOK
<1> QED BY <1>7, <1>8 DEF ShapeInv, Rooted

LEMMA LoadShape ==
    ASSUME TreeTypeInv, ShapeInv, NEW a \in Admin, Org!Load(a) PROVE ShapeInv'
<1>1. ListFits(Org!TreeNodeList(RootOf[a]), a)
  BY LoadedList DEF Org!TreeNodeList, ShapeInv, TreeTypeInv, Org!TypeOK
<1>2. \A b \in Admin : ListFits(view'[b], b)
  BY <1>1 DEF ShapeInv, Org!Load, TreeTypeInv, Org!TypeOK
<1> QED BY <1>2 DEF ShapeInv, Org!Load, Rooted

LEMMA AppendShape ==
    ASSUME TreeTypeInv, ShapeInv, NEW a \in Admin, NEW n \in Node, Org!AppendNode(a, n)
    PROVE  ShapeInv'
<1>1. n \in Org!Territory(a)
  BY Territories DEF ShapeInv, ListFits, Org!AppendNode
<1>2. ListFits(view[a] \cup {n}, a)
  BY <1>1 DEF ShapeInv, ListFits, Org!AppendNode
<1> QED BY <1>2, SendShape DEF Org!AppendNode

LEMMA RemoveShape ==
    ASSUME TreeTypeInv, ShapeInv, NEW a \in Admin, NEW n \in Node, Org!Remove(a, n)
    PROVE  ShapeInv'
<1> DEFINE A == Org!AllSubNodes(view[a], n)
           L == view[a] \ (A \cup {n})
<1>1. view[a] \in SUBSET Node
  BY DEF TreeTypeInv, Org!TypeOK
<1>2. RootOf[a] \in view[a] /\ n # RootOf[a]
  BY DEF ShapeInv, ListFits, Org!Remove
<1>3. RootOf[a] \notin A
  <2> SUFFICES ASSUME RootOf[a] \in A PROVE FALSE
    OBVIOUS
  <2>1. Pid[RootOf[a]] \in A \cup {n}
    BY <1>1, SubParent
  <2>2. A \cup {n} \subseteq view[a]
    BY SubNodes DEF Org!Remove
  <2> QED BY <2>1, <2>2, Territories DEF ShapeInv, ListFits
<1>4. ASSUME NEW m \in L, m # RootOf[a] PROVE Pid[m] \in L
  <2>1. Pid[m] \in view[a]
    BY <1>4 DEF ShapeInv, ListFits
  <2>2. Pid[m] \notin A \cup {n}
    BY <1>1, <1>4, SubStep
  <2> QED BY <2>1, <2>2
<1>5. ListFits(L, a)
  BY <1>2, <1>3, <1>4 DEF ShapeInv, ListFits
<1> QED BY <1>5, SendShape DEF Org!Remove

LEMMA BeginShape ==
    ASSUME TreeTypeInv, ShapeInv, Tidy, NEW p \in posts, Org!SaveBegin(p) PROVE ShapeInv'
<1> DEFINE new == [p EXCEPT !.at = "open", !.seen = tree]
           P == posts'
<1>1. P = (posts \ {p}) \cup {new} /\ p \in Org!Post
  BY DEF Org!SaveBegin, TreeTypeInv, Org!TypeOK
<1>2. new.at = "open" /\ new.seen = tree /\ new.admin = p.admin /\ new.list = p.list
  BY <1>1 DEF Org!Post
<1> HIDE DEF new
<1>3. IsFiniteSet(P)
  BY <1>1, FS_AddElement, FS_RemoveElement DEF ShapeInv, PostsFit
<1>4. \A q \in P : ListFits(q.list, q.admin) /\ SeenFits(q, tree)
  BY <1>1, <1>2 DEF ShapeInv, PostsFit, SeenFits
<1>5. ASSUME NEW q \in posts \ {p}, q.at = "open" PROVE Separate(new, q) /\ Separate(q, new)
  <2>1. Org!Apart
    BY <1>5 DEF Tidy, Org!Aligned, Org!SaveBegin
  <2>2. p.admin # q.admin
    BY <1>5, <2>1 DEF Org!Apart, ShapeInv, PostsFit
  <2>3. p.admin \in Admin /\ q.admin \in Admin
    BY <1>1 DEF TreeTypeInv, Org!TypeOK, Org!Post
  <2> QED BY <1>2, <2>1, <2>2, <2>3 DEF Org!Apart, Separate
<1>6. \A q, s \in P : q.at = "open" /\ s.at = "open" /\ q # s => Separate(q, s)
  BY <1>1, <1>5 DEF ShapeInv, PostsFit
<1>7. MaxPosts = 1 => \A q, s \in P : q.admin = s.admin => q = s
  BY <1>1, <1>2 DEF ShapeInv, PostsFit
<1> QED BY <1>3, <1>4, <1>6, <1>7 DEF ShapeInv, PostsFit, Rooted, Org!SaveBegin

\* What the statements of a save come to.
LEMMA EndSaves ==
    ASSUME TreeTypeInv, ShapeInv, NEW p \in posts, Org!SaveEnd(p)
    PROVE  p \in Org!Post /\ SaveFits(p, tree')
<1>1. p \in Org!Post /\ p.admin \in Admin /\ ListFits(p.list, p.admin) /\ SeenFits(p, tree)
  BY DEF TreeTypeInv, Org!TypeOK, Org!Post, ShapeInv, PostsFit
<1>2. Rooted(p.seen) /\ p.seen \cap Org!Territory(p.admin) = tree \cap Org!Territory(p.admin)
  BY <1>1 DEF Org!SaveEnd, SeenFits
<1>3. tree \in SUBSET Node /\ Rooted(tree) /\ RootOf[p.admin] \in tree
  BY <1>1 DEF TreeTypeInv, Org!TypeOK, ShapeInv
<1>4. (p.list \ p.seen) \cap tree = {} /\ SaveFits(p, Org!Saved(p, RootOf[p.admin]))
  BY <1>1, <1>2, <1>3, SavedTree
<1>5. Org!RootIds(p.list) = {RootOf[p.admin]}
  BY <1>1, ListRoot
<1>6. tree' = Org!Saved(p, RootOf[p.admin])
  BY <1>4, <1>5 DEF Org!SaveEnd
<1> QED BY <1>1, <1>4, <1>6

LEMMA EndShape ==
    ASSUME TreeTypeInv, ShapeInv, Tidy, NEW p \in posts, Org!SaveEnd(p) PROVE ShapeInv'
<1> DEFINE P == posts'
           D == Org!Territory(p.admin)
<1>1. P = posts \ {p} /\ p.at = "open" /\ UNCHANGED view
  BY DEF Org!SaveEnd
<1>2. p \in Org!Post /\ p.admin \in Admin /\ Rooted(tree') /\ tree' \cap D = p.list
      /\ tree' \ D = tree \ D /\ ListFits(p.list, p.admin)
  BY EndSaves DEF SaveFits, Org!Post, ShapeInv, PostsFit
<1>3. \A a \in Admin : RootOf[a] \in tree'
  <2> SUFFICES ASSUME NEW a \in Admin PROVE RootOf[a] \in tree'
    OBVIOUS
  <2>1. RootOf[a] = RootOf[p.admin] \/ Org!Territory(a) \cap D = {}
    BY <1>2 DEF Tidy, Org!Apart, Org!Aligned
  <2>2. RootOf[a] \in tree /\ RootOf[a] \in Org!Territory(a) /\ RootOf[p.admin] \in p.list
    BY <1>2, Territories DEF ShapeInv, ListFits
  <2> QED BY <2>1, <2>2, <1>2
<1>4. \A q \in P : SeenFits(q, tree')
  <2> SUFFICES ASSUME NEW q \in P, q.at = "open"
               PROVE  /\ Rooted(q.seen)
                      /\ q.seen \cap Org!Territory(q.admin) = tree' \cap Org!Territory(q.admin)
    BY DEF SeenFits
  <2>1. Separate(p, q) /\ SeenFits(q, tree)
    BY <1>1 DEF ShapeInv, PostsFit
  <2>2. Rooted(q.seen) /\ q.seen \cap Org!Territory(q.admin) = tree \cap Org!Territory(q.admin)
    BY <2>1 DEF SeenFits
  <2>3. D \cap Org!Territory(q.admin) = {}
    BY <2>1 DEF Separate
  <2> HIDE DEF D
  <2>4. tree \cap Org!Territory(q.admin) = tree' \cap Org!Territory(q.admin)
    BY <2>3, <1>2
  <2> QED BY <2>2, <2>4
<1>5. IsFiniteSet(P)
  BY <1>1, FS_RemoveElement DEF ShapeInv, PostsFit
<1>6. PostsFit(P, tree')
  BY <1>1, <1>4, <1>5 DEF ShapeInv, PostsFit
<1> QED BY <1>1, <1>2, <1>3, <1>6 DEF ShapeInv

LEMMA TreeShape == ASSUME Tidy PROVE Org!Spec => []ShapeInv
<1>1. Org!Init => ShapeInv
  <2> SUFFICES ASSUME Org!Init PROVE ShapeInv
    OBVIOUS
  <2>1. tree = Existing /\ posts = {} /\ tree \in SUBSET Node /\ Rooted(tree)
    BY SidebarAssumption DEF Org!Init, Org!TreeAssumption, Rooted
  <2>2. ASSUME NEW a \in Admin PROVE RootOf[a] \in tree /\ ListFits(view[a], a)
    <3>1. RootOf[a] \in tree
      BY <2>1, SidebarAssumption DEF Org!TreeAssumption
    <3> QED BY <2>1, <3>1, LoadedList DEF Org!Init, Org!TreeNodeList
  <2>3. PostsFit(posts, tree)
    BY <2>1, FS_EmptySet DEF PostsFit
  <2> QED BY <2>1, <2>2, <2>3 DEF ShapeInv
<1>2. TreeTypeInv /\ ShapeInv /\ [Org!Next]_(Org!vars) => ShapeInv'
  <2> SUFFICES ASSUME TreeTypeInv, ShapeInv, [Org!Next]_(Org!vars)
               PROVE  ShapeInv'
    OBVIOUS
  <2>1. ASSUME NEW a \in Admin, Org!Rename(a) PROVE ShapeInv'
    <3>1. ListFits(view[a], a)
      BY DEF ShapeInv
    <3> QED BY <2>1, <3>1, SendShape DEF Org!Rename
  <2>2. CASE UNCHANGED <<tree, view, posts>>
    BY <2>2 DEF ShapeInv, Rooted
  <2>3. CASE (\E n \in Node : Org!Attach(n)) \/ Org!Prune \/ UNCHANGED Org!vars
    BY <2>2, <2>3 DEF Org!Attach, Org!Prune, Org!vars
  <2> QED BY <2>1, <2>3, LoadShape, AppendShape, RemoveShape, BeginShape, EndShape DEF Org!Next
<1> QED BY <1>1, <1>2, TreeTypes, PTL DEF Org!Spec

(***************************************************************************)
(* One browser to a subtree.  What it shows is what it sent last; between  *)
(* that and the table there are only nodes that were removed, as a node    *)
(* that has nodes below it is a folder, and folders are not removed then.  *)
(***************************************************************************)
OwnInv ==
    /\ \A p \in posts : p.list = view[p.admin]
    /\ \A a \in Admin : /\ Org!Mine(a) = {} => view[a] = tree \cap Org!Territory(a)
                        /\ (tree \cap Org!Territory(a)) \ view[a] \subseteq removed
                        /\ removed \cap view[a] = {}
    /\ \A n \in used : Pid[n] \in Folder \cup {Top}
    /\ attached \subseteq tree \cup removed

LEMMA SendOwn ==
    ASSUME Org!Apart, TreeTypeInv, ShapeInv, OwnInv,
           NEW a \in Admin, NEW L, Org!Send(a, L), UNCHANGED tree,
           removed \subseteq removed', removed' \cap L = {},
           \A b \in Admin \ {a} : removed' \cap view[b] = {},
           view[a] \ L \subseteq removed',
           \A n \in used' : Pid[n] \in Folder \cup {Top}, UNCHANGED attached
    PROVE  OwnInv'
<1> DEFINE new == [admin |-> a, list |-> L, seen |-> {}, at |-> "sent"]
<1>1. posts' = posts \cup {new} /\ new.admin = a /\ new.list = L
  BY DEF Org!Send
<1>2. view' = [view EXCEPT ![a] = L] /\ view'[a] = L
  BY DEF Org!Send, TreeTypeInv, Org!TypeOK
<1>3. \A p \in posts : p.admin \in Admin /\ p.admin # a
  BY SendAlone DEF Org!Apart, Org!Mine, TreeTypeInv, Org!TypeOK, Org!Post
<1>4. \A b \in Admin \ {a} : view'[b] = view[b]
  BY <1>2 DEF TreeTypeInv, Org!TypeOK
<1> HIDE DEF new
<1>5. \A p \in posts' : p.list = view'[p.admin]
  BY <1>1, <1>2, <1>3, <1>4 DEF OwnInv
<1>6. ASSUME NEW b \in Admin
      PROVE  /\ Org!Mine(b)' = {} => view'[b] = tree \cap Org!Territory(b)
             /\ (tree \cap Org!Territory(b)) \ view'[b] \subseteq removed'
             /\ removed' \cap view'[b] = {}
  <2>1. CASE b = a
    <3>1. new \in Org!Mine(a)'
      BY <1>1 DEF Org!Mine
    <3>2. (tree \cap Org!Territory(a)) \ view[a] \subseteq removed
      BY DEF OwnInv
    <3>3. (tree \cap Org!Territory(a)) \ L \subseteq removed'
      BY <3>2
    <3> QED BY <2>1, <3>1, <3>3, <1>2
  <2>2. CASE b # a
    <3>1. Org!Mine(b)' = Org!Mine(b)
      BY <1>1, <2>2 DEF Org!Mine
    <3> QED BY <2>2, <3>1, <1>4 DEF OwnInv
  <2> QED BY <2>1, <2>2
<1> QED BY <1>5, <1>6 DEF OwnInv, Org!Territory, Org!AllSubNodes

LEMMA AppendOwn ==
    ASSUME Org!Apart, TreeTypeInv, ShapeInv, OwnInv,
           NEW a \in Admin, NEW n \in Node, Org!AppendNode(a, n)
    PROVE  OwnInv'
<1>1. removed \cap (view[a] \cup {n}) = {}
  BY DEF OwnInv, TreeTypeInv, Org!TypeOK, Org!AppendNode
<1>2. \A m \in used' : Pid[m] \in Folder \cup {Top}
  BY DEF OwnInv, Org!AppendNode
<1>3. \A b \in Admin \ {a} : removed \cap view[b] = {}
  BY DEF OwnInv
<1>4. Org!Send(a, view[a] \cup {n}) /\ UNCHANGED <<tree, removed, attached>>
  BY DEF Org!AppendNode
<1>5. view[a] \ (view[a] \cup {n}) \subseteq removed
  OBVIOUS
<1> QED BY <1>1, <1>2, <1>3, <1>4, <1>5, SendOwn

LEMMA RenameOwn ==
    ASSUME Org!Apart, TreeTypeInv, ShapeInv, OwnInv, NEW a \in Admin, Org!Rename(a)
    PROVE  OwnInv'
<1>1. removed \cap view[a] = {} /\ \A b \in Admin \ {a} : removed \cap view[b] = {}
  BY DEF OwnInv
<1>2. \A m \in used : Pid[m] \in Folder \cup {Top}
  BY DEF OwnInv
<1>3. Org!Send(a, view[a]) /\ UNCHANGED <<tree, used, removed, attached>>
  BY DEF Org!Rename
<1> QED BY <1>1, <1>2, <1>3, SendOwn

\* A node that may be removed has none below it.
LEMMA RemoveOwn ==
    ASSUME Org!Apart, TreeTypeInv, ShapeInv, OwnInv,
           NEW a \in Admin, NEW n \in Node, Org!Remove(a, n)
    PROVE  OwnInv'
<1> DEFINE L == view[a] \ (Org!AllSubNodes(view[a], n) \cup {n})
<1>1. \A m \in view[a] : Pid[m] # n
  <2> SUFFICES ASSUME NEW m \in view[a], Pid[m] = n PROVE FALSE
    OBVIOUS
  <2>1. Pid[m] \in Folder \cup {Top} /\ Top \notin Node
    BY SidebarAssumption DEF OwnInv, TreeTypeInv, Org!TreeAssumption
  <2> QED BY <2>1 DEF Org!Remove, Org!Children
<1>2. Org!AllSubNodes(view[a], n) = {}
  <2> DEFINE S == {}
  <2>1. view[a] \in SUBSET Node /\ S \in SUBSET view[a]
    BY DEF TreeTypeInv, Org!TypeOK
  <2>2. \A m \in view[a] : Pid[m] \in S \cup {n} => m \in S
    BY <1>1
  <2>3. Org!AllSubNodes(view[a], n) \subseteq S
    <3> HIDE DEF S
    <3> QED BY <2>1, <2>2, SubSmallest
  <2> QED BY <2>3
<1>3. L = view[a] \ {n}
  BY <1>2
<1> HIDE DEF L
<1>4. Org!Send(a, L) /\ removed' = removed \cup {n} /\ UNCHANGED <<tree, used, attached>>
  BY DEF Org!Remove, L
<1>5. removed' \cap L = {} /\ view[a] \ L \subseteq removed'
  BY <1>3, <1>4 DEF OwnInv
<1>6. ASSUME NEW b \in Admin \ {a} PROVE removed' \cap view[b] = {}
  <2>1. n \in Org!Territory(a) /\ view[b] \subseteq Org!Territory(b)
    BY DEF ShapeInv, ListFits, Org!Remove
  <2>2. n \notin view[b]
    BY <2>1 DEF Org!Apart
  <2> QED BY <1>4, <2>2 DEF OwnInv
<1>7. \A m \in used' : Pid[m] \in Folder \cup {Top}
  BY <1>4 DEF OwnInv
<1> QED BY <1>4, <1>5, <1>6, <1>7, SendOwn

LEMMA LoadOwn ==
    ASSUME Org!Apart, TreeTypeInv, ShapeInv, OwnInv, NEW a \in Admin, Org!Load(a)
    PROVE  OwnInv'
<1>1. Org!TreeNodeList(RootOf[a]) = tree \cap Org!Territory(a)
  BY LoadedList DEF Org!TreeNodeList, ShapeInv, TreeTypeInv, Org!TypeOK
<1>2. view[a] = tree \cap Org!Territory(a)
  BY DEF OwnInv, Org!Load
<1>3. view' = view
  BY <1>1, <1>2 DEF Org!Load, TreeTypeInv, Org!TypeOK
<1>4. UNCHANGED <<tree, posts, used, removed, attached>>
  BY DEF Org!Load
<1> QED BY <1>3, <1>4 DEF OwnInv, Org!Mine, Org!Territory, Org!AllSubNodes

LEMMA BeginOwn ==
    ASSUME Org!Apart, TreeTypeInv, ShapeInv, OwnInv, NEW p \in posts, Org!SaveBegin(p)
    PROVE  OwnInv'
<1> DEFINE new == [p EXCEPT !.at = "open", !.seen = tree]
<1>1. posts' = (posts \ {p}) \cup {new} /\ new.admin = p.admin /\ new.list = p.list
  BY DEF Org!SaveBegin, TreeTypeInv, Org!TypeOK, Org!Post
<1> HIDE DEF new
<1>2. \A a \in Admin : Org!Mine(a)' = {} => Org!Mine(a) = {}
  BY <1>1 DEF Org!Mine
<1>3. UNCHANGED <<tree, view, used, removed, attached>>
  BY DEF Org!SaveBegin
<1>4. \A q \in posts' : q.list = view'[q.admin]
  BY <1>1, <1>3 DEF OwnInv
<1>5. \A a \in Admin : Org!Mine(a)' = {} => view'[a] = tree' \cap Org!Territory(a)
  BY <1>2, <1>3 DEF OwnInv
<1> QED BY <1>3, <1>4, <1>5 DEF OwnInv, Org!Territory, Org!AllSubNodes

\* What a save deletes was removed.
LEMMA EndDeletes ==
    ASSUME Org!Apart, TreeTypeInv, ShapeInv, OwnInv, NEW p \in posts, Org!SaveEnd(p)
    PROVE  /\ tree \ tree' \subseteq removed
           /\ removed \cap tree' \subseteq tree
<1>1. p \in Org!Post /\ p.admin \in Admin /\ p.list = view[p.admin]
  BY EndSaves DEF Org!Post, OwnInv
<1>2. /\ tree' \cap Org!Territory(p.admin) = p.list
      /\ tree' \ Org!Territory(p.admin) = tree \ Org!Territory(p.admin)
  BY EndSaves DEF SaveFits
<1>3. /\ (tree \cap Org!Territory(p.admin)) \ view[p.admin] \subseteq removed
      /\ removed \cap view[p.admin] = {}
  BY <1>1 DEF OwnInv
<1>4. tree \ tree' \subseteq removed
  BY <1>1, <1>2, <1>3
<1>5. removed \cap tree' \subseteq tree
  BY <1>1, <1>2, <1>3
<1> QED BY <1>4, <1>5

LEMMA EndOwn ==
    ASSUME Org!Apart, TreeTypeInv, ShapeInv, OwnInv, NEW p \in posts, Org!SaveEnd(p)
    PROVE  OwnInv'
<1>1. p \in Org!Post /\ p.admin \in Admin /\ p.list = view[p.admin]
  BY EndSaves DEF Org!Post, OwnInv
<1>2. /\ tree' \cap Org!Territory(p.admin) = p.list
      /\ tree' \ Org!Territory(p.admin) = tree \ Org!Territory(p.admin)
  BY EndSaves DEF SaveFits
<1>3. posts' = posts \ {p} /\ UNCHANGED <<view, used, removed, attached>>
  BY DEF Org!SaveEnd
<1>4. ASSUME NEW a \in Admin
      PROVE  /\ Org!Mine(a)' = {} => view[a] = tree' \cap Org!Territory(a)
             /\ (tree' \cap Org!Territory(a)) \ view[a] \subseteq removed
  <2>1. CASE a = p.admin
    BY <2>1, <1>1, <1>2
  <2>2. CASE a # p.admin
    <3>1. Org!Territory(a) \cap Org!Territory(p.admin) = {}
      BY <2>2, <1>1 DEF Org!Apart
    <3>2. tree' \cap Org!Territory(a) = tree \cap Org!Territory(a)
      BY <3>1, <1>2
    <3>3. Org!Mine(a)' = Org!Mine(a)
      BY <2>2, <1>3 DEF Org!Mine
    <3> QED BY <3>2, <3>3 DEF OwnInv
  <2> QED BY <2>1, <2>2
<1>5. attached \subseteq tree' \cup removed
  BY EndDeletes DEF OwnInv
<1>6. \A a \in Admin : removed \cap view[a] = {}
  BY DEF OwnInv
<1>7. \A q \in posts' : q.list = view[q.admin]
  BY <1>3 DEF OwnInv
<1>8. \A n \in used : Pid[n] \in Folder \cup {Top}
  BY DEF OwnInv
<1> QED BY <1>3, <1>4, <1>5, <1>6, <1>7, <1>8 DEF OwnInv, Org!Territory, Org!AllSubNodes

LEMMA TreeOwn == ASSUME Org!Apart PROVE Org!Spec => []OwnInv
<1> Tidy
  BY DEF Tidy
<1>1. Org!Init => OwnInv
  <2> SUFFICES ASSUME Org!Init PROVE OwnInv
    OBVIOUS
  <2>1. tree = Existing /\ used = Existing /\ tree \in SUBSET Node /\ Rooted(tree)
    BY SidebarAssumption DEF Org!Init, Org!TreeAssumption, Rooted
  <2>2. ASSUME NEW a \in Admin PROVE view[a] = tree \cap Org!Territory(a)
    <3>1. RootOf[a] \in tree
      BY <2>1, SidebarAssumption DEF Org!TreeAssumption
    <3> QED BY <2>1, <3>1, LoadedList DEF Org!Init, Org!TreeNodeList
  <2>3. \A n \in used : Pid[n] \in Folder \cup {Top}
    BY <2>1, SidebarAssumption DEF Org!TreeAssumption
  <2>4. posts = {} /\ removed = {} /\ attached = {}
    BY DEF Org!Init
  <2> QED BY <2>2, <2>3, <2>4 DEF OwnInv
<1>2. TreeTypeInv /\ ShapeInv /\ OwnInv /\ [Org!Next]_(Org!vars) => OwnInv'
  <2> SUFFICES ASSUME TreeTypeInv, ShapeInv, OwnInv, [Org!Next]_(Org!vars)
               PROVE  OwnInv'
    OBVIOUS
  <2>1. ASSUME UNCHANGED <<tree, view, posts, used, removed>>,
               attached' \subseteq tree \cup removed
        PROVE  OwnInv'
    BY <2>1 DEF OwnInv, Org!Mine, Org!Territory, Org!AllSubNodes
  <2>2. CASE \E n \in Node : Org!Attach(n)
    BY <2>1, <2>2 DEF Org!Attach, OwnInv
  <2>3. CASE Org!Prune
    BY <2>1, <2>3 DEF Org!Prune, OwnInv
  <2>4. CASE UNCHANGED Org!vars
    BY <2>1, <2>4 DEF Org!vars, OwnInv
  <2> QED BY <2>2, <2>3, <2>4, LoadOwn, RenameOwn, AppendOwn, RemoveOwn, BeginOwn, EndOwn
          DEF Org!Next
<1>3. Org!Spec => []TreeTypeInv /\ []ShapeInv
  BY TreeTypes, TreeShape
<1> QED BY <1>1, <1>2, <1>3, PTL DEF Org!Spec

\* Saves never leave a node whose parent is gone, whether every subtree has one
\* browser that waits for its saves or saves do not overlap; and with one such browser
\* to a subtree the table holds what the browser shows (setTreeNodeList).
THEOREM TreesStayInSync == Org!Spec => []TreeInSync
<1>1. TreeTypeInv => Org!TypeOK
  BY DEF TreeTypeInv
<1>2. TreeTypeInv /\ ShapeInv => Org!Connected
  BY DEF ShapeInv, Rooted, Org!Connected
<1>3. TreeTypeInv /\ ShapeInv /\ OwnInv => Org!InSync
  <2> SUFFICES ASSUME TreeTypeInv, ShapeInv, OwnInv, NEW a \in Admin, Org!Mine(a) = {}
               PROVE  view[a] = Org!TreeNodeList(RootOf[a])
    BY DEF Org!InSync
  <2>1. Org!TreeNodeList(RootOf[a]) = tree \cap Org!Territory(a)
    BY LoadedList DEF Org!TreeNodeList, ShapeInv, TreeTypeInv, Org!TypeOK
  <2> QED BY <2>1 DEF OwnInv
<1>4. CASE ~Tidy
  <2>1. Org!TypeOK => TreeInSync
    BY <1>4 DEF Tidy, TreeInSync, Org!TreeInSync
  <2> QED BY <1>1, <2>1, TreeTypes, PTL
<1>5. CASE Tidy /\ ~Org!Apart
  <2>1. Org!TypeOK /\ Org!Connected => TreeInSync
    BY <1>5 DEF TreeInSync, Org!TreeInSync
  <2>2. Org!Spec => []ShapeInv
    BY <1>5, TreeShape
  <2> QED BY <1>1, <1>2, <2>1, <2>2, TreeTypes, PTL
<1>6. CASE Org!Apart
  <2>1. Org!TypeOK /\ Org!Connected /\ Org!InSync => TreeInSync
    BY DEF TreeInSync, Org!TreeInSync
  <2>2. (Org!Spec => []ShapeInv) /\ (Org!Spec => []OwnInv)
    BY <1>6, TreeShape, TreeOwn DEF Tidy
  <2> QED BY <1>1, <1>2, <1>3, <2>1, <2>2, TreeTypes, PTL
<1> QED BY <1>4, <1>5, <1>6

\* With one browser to a subtree, which waits for its saves, event_of_minute prunes
\* only what an administrator removed, a removed node does not come back, and a
\* folder goes only with nodes that were removed on purpose (setTreeNodeList).
THEOREM PruningIsMeant == ASSUME Org!Apart PROVE Org!Spec => TreePruned
<1> DEFINE Back == \A n \in removed : n \notin tree => n \notin tree'
           Meant == attached \ attached' \subseteq removed
           Kept == \A n \in Folder : n \in tree \ tree' => Org!Children(tree, n) \subseteq removed
<1> Tidy
  BY DEF Tidy
<1>1. TreeTypeInv /\ ShapeInv /\ OwnInv /\ [Org!Next]_(Org!vars)
          => [Back /\ Meant /\ Kept]_(Org!vars)
  <2> SUFFICES ASSUME TreeTypeInv, ShapeInv, OwnInv, Org!Next
               PROVE  Back /\ Meant /\ Kept
    OBVIOUS
  <2>1. ASSUME UNCHANGED <<tree, attached>> PROVE Back /\ Meant /\ Kept
    BY <2>1
  <2>2. CASE \E n \in Node : Org!Attach(n)
    BY <2>2 DEF Org!Attach
  <2>3. CASE Org!Prune
    BY <2>3 DEF Org!Prune, OwnInv
  <2>4. ASSUME NEW p \in posts, Org!SaveEnd(p) PROVE Back /\ Meant /\ Kept
    <3>1. UNCHANGED attached
      BY <2>4 DEF Org!SaveEnd
    <3>2. tree \ tree' \subseteq removed /\ removed \cap tree' \subseteq tree
      BY <2>4, EndDeletes
    <3>3. ASSUME NEW n \in Folder, n \in tree \ tree', NEW m \in Org!Children(tree, n)
          PROVE  m \in removed
      <4>1. m \in tree /\ Pid[m] = n
        BY <3>3 DEF Org!Children
      <4>2. n # Top
        BY <3>3, SidebarAssumption DEF Org!TreeAssumption
      <4>3. Rooted(tree')
        BY <2>4, EndSaves DEF SaveFits
      <4>4. m \notin tree'
        BY <4>1, <4>2, <4>3, <3>3 DEF Rooted
      <4> QED BY <4>1, <4>4, <3>2
    <3> QED BY <3>1, <3>2, <3>3
  <2>5. ASSUME NEW a \in Admin,
               Org!Load(a) \/ Org!Rename(a)
                 \/ \E n \in Node : Org!AppendNode(a, n) \/ Org!Remove(a, n)
        PROVE  UNCHANGED <<tree, attached>>
    BY <2>5 DEF Org!Load, Org!Rename, Org!AppendNode, Org!Remove
  <2>6. ASSUME NEW p \in posts, Org!SaveBegin(p) PROVE UNCHANGED <<tree, attached>>
    BY <2>6 DEF Org!SaveBegin
  <2> HIDE DEF Back, Meant, Kept
  <2> QED BY <2>1, <2>2, <2>3, <2>4, <2>5, <2>6 DEF Org!Next
<1>2. [Back /\ Meant /\ Kept]_(Org!vars) => [Back]_(Org!vars) /\ [Meant]_(Org!vars) /\ [Kept]_(Org!vars)
  OBVIOUS
<1>3. Org!Spec => []TreeTypeInv /\ []ShapeInv /\ []OwnInv
  BY TreeTypes, TreeShape, TreeOwn
<1>4. Org!Spec => [][Back]_(Org!vars) /\ [][Meant]_(Org!vars) /\ [][Kept]_(Org!vars)
  BY <1>1, <1>2, <1>3, PTL DEF Org!Spec
<1> QED BY <1>4 DEF TreePruned, Org!TreePruned, Org!RemovedForGood, Org!NonEmptyKept, Org!PrunesRemoved

-----------------------------------------------------------------------------
(***************************************************************************)
(* Sums of the values v of the members of a finite set, as MapThenSumSet   *)
(* takes them, in an order of its own: every member is added once,         *)
(* whatever the order.  The lemmas argue by a least set that fails.        *)
(***************************************************************************)
\* g is the function that MapThenSumSet recurses by on the subsets of S, for the values v.
IsSum(v, S, g) ==
    g = [s \in SUBSET S |->
            IF s = {} THEN 0
            ELSE LET x == CHOOSE x \in s : TRUE IN v[x] + g[s \ {x}]]

\* The member that is taken from S first.
Pick(S) == CHOOSE x \in S : TRUE

SumOf(v, S) == (CHOOSE g : IsSum(v, S, g))[S]

\* Of some subsets of a finite set, one contains no other.
LEMMA LeastSubset ==
    ASSUME NEW S, IsFiniteSet(S), NEW T, T \subseteq SUBSET S, T # {}
    PROVE  \E m \in T : \A t \in T : t \subseteq m => t = m
<1>1. T \subseteq FiniteSubsetsOf(S)
  BY FS_FiniteSubsetsOfFinite
<1>2. PICK m \in T : \A t \in T : <<t, m>> \notin StrictSubsetOrdering(S)
  BY <1>1, FS_StrictSubsetOrderingWellFounded, WFMin
<1>3. ASSUME NEW t \in T, t \subseteq m
      PROVE  t = m
  <2>1. <<t, m>> \in (SUBSET S) \X (SUBSET S)
    OBVIOUS
  <2> QED BY <1>2, <1>3, <2>1 DEF StrictSubsetOrdering
<1> QED BY <1>3

\* Unfolding, and folding, the recursion once.
LEMMA SumStep ==
    ASSUME NEW v, NEW S, NEW g, IsSum(v, S, g), NEW s, s \in SUBSET S
    PROVE  g[s] = IF s = {} THEN 0 ELSE v[Pick(s)] + g[s \ {Pick(s)}]
<1> DEFINE step(f, t) == IF t = {} THEN 0
                         ELSE LET x == CHOOSE x \in t : TRUE IN v[x] + f[t \ {x}]
<1>1. g = [t \in SUBSET S |-> step(g, t)]
  BY DEF IsSum
<1> HIDE DEF step
<1>2. g[s] = step(g, s)
  BY <1>1
<1> QED BY <1>2 DEF step, Pick

LEMMA SumIntro ==
    ASSUME NEW v, NEW S, NEW g, g = [s \in SUBSET S |-> g[s]],
           \A s \in SUBSET S : g[s] = IF s = {} THEN 0 ELSE v[Pick(s)] + g[s \ {Pick(s)}]
    PROVE  IsSum(v, S, g)
<1> DEFINE step(s) == IF s = {} THEN 0
                      ELSE LET x == CHOOSE x \in s : TRUE IN v[x] + g[s \ {x}]
<1>1. \A s \in SUBSET S : g[s] = step(s)
  BY DEF Pick
<1> HIDE DEF step
<1>2. g = [s \in SUBSET S |-> step(s)]
  BY <1>1
<1> QED BY <1>2 DEF IsSum, step

LEMMA FirstIn ==
    ASSUME NEW s, s # {}
    PROVE  Pick(s) \in s
BY DEF Pick

\* Two such functions agree where both are defined.
Agree(g, h, T) == \A s \in SUBSET T : g[s] = h[s]

LEMMA SumUnique ==
    ASSUME NEW v, NEW S, IsFiniteSet(S), NEW T, T \in SUBSET S,
           NEW g, IsSum(v, S, g), NEW h, IsSum(v, T, h)
    PROVE  Agree(g, h, T)
<1> DEFINE Bad == {s \in SUBSET T : g[s] # h[s]}
<1> SUFFICES ASSUME Bad # {}
             PROVE  FALSE
  BY DEF Agree
<1>1. Bad \subseteq SUBSET S
  OBVIOUS
<1> HIDE DEF Bad
<1>2. PICK m \in Bad : \A t \in Bad : t \subseteq m => t = m
  BY <1>1, LeastSubset
<1> USE DEF Bad
<1>3. m \in SUBSET S /\ m \in SUBSET T /\ g[m] # h[m]
  OBVIOUS
<1>4. CASE m = {}
  BY <1>3, <1>4, SumStep
<1>5. CASE m # {}
  <2> DEFINE n == m \ {Pick(m)}
  <2>1. Pick(m) \in m
    BY <1>5, FirstIn
  <2>2. n \in SUBSET T /\ n \subseteq m /\ n # m
    BY <1>3, <2>1
  <2>3. g[n] = h[n]
    BY <1>2, <2>2
  <2>4. g[m] = v[Pick(m)] + g[n]
    <3>1. IsSum(v, S, g) /\ m \in SUBSET S
      BY <1>3
    <3>2. g[m] = IF m = {} THEN 0 ELSE v[Pick(m)] + g[m \ {Pick(m)}]
      BY <3>1, SumStep
    <3> QED BY <3>2, <1>5
  <2>5. h[m] = v[Pick(m)] + h[n]
    <3>1. IsSum(v, T, h) /\ m \in SUBSET T
      BY <1>3
    <3>2. h[m] = IF m = {} THEN 0 ELSE v[Pick(m)] + h[m \ {Pick(m)}]
      BY <3>1, SumStep
    <3> QED BY <3>2, <1>5
  <2> QED BY <1>3, <2>3, <2>4, <2>5
<1> QED BY <1>4, <1>5

\* The recursion defines a function on every finite set.
LEMMA SumExists ==
    ASSUME NEW v, NEW S, IsFiniteSet(S)
    PROVE  \A T \in SUBSET S : \E g : IsSum(v, T, g)
<1> DEFINE Bad == {T \in SUBSET S : ~ \E g : IsSum(v, T, g)}
<1> SUFFICES ASSUME Bad # {}
             PROVE  FALSE
  OBVIOUS
<1>1. Bad \subseteq SUBSET S
  OBVIOUS
<1> HIDE DEF Bad
<1>2. PICK m \in Bad : \A t \in Bad : t \subseteq m => t = m
  BY <1>1, LeastSubset
<1> USE DEF Bad
<1>3. m \in SUBSET S /\ ~ \E g : IsSum(v, m, g)
  OBVIOUS
<1> DEFINE f(t) == CHOOSE g : IsSum(v, t, g)
           k == [s \in SUBSET m |-> IF s = {} THEN 0
                                    ELSE v[Pick(s)] + SumOf(v, s \ {Pick(s)})]
<1>4. ASSUME NEW t \in SUBSET m, t # m
      PROVE  IsFiniteSet(t) /\ IsSum(v, t, f(t)) /\ SumOf(v, t) = f(t)[t]
  <2>1. t \in SUBSET S /\ t \notin Bad
    BY <1>2, <1>3, <1>4
  <2>2. \E g : IsSum(v, t, g)
    BY <2>1
  <2> QED BY <2>1, <2>2, FS_Subset DEF SumOf
<1>5. ASSUME NEW t \in SUBSET m, t # m
      PROVE  k[t] = SumOf(v, t)
  <2>1. f(t)[t] = IF t = {} THEN 0 ELSE v[Pick(t)] + f(t)[t \ {Pick(t)}]
    <3>1. IsSum(v, t, f(t)) /\ t \in SUBSET t
      BY <1>4, <1>5
    <3> HIDE DEF f
    <3> QED BY <3>1, SumStep
  <2>2. CASE t = {}
    BY <1>4, <1>5, <2>1, <2>2
  <2>3. CASE t # {}
    <3> DEFINE n == t \ {Pick(t)}
    <3>1. Pick(t) \in t
      BY <2>3, FirstIn
    <3>2. n \in SUBSET t /\ n \in SUBSET m /\ n # m
      BY <1>5, <3>1
    <3>3. IsSum(v, n, f(n)) /\ SumOf(v, n) = f(n)[n]
      BY <1>4, <3>2
    <3>4. IsFiniteSet(t) /\ IsSum(v, t, f(t)) /\ SumOf(v, t) = f(t)[t]
      BY <1>4, <1>5
    <3> HIDE DEF f, n
    <3>5. f(t)[n] = f(n)[n]
      BY <3>2, <3>3, <3>4, SumUnique DEF Agree
    <3>6. k[t] = v[Pick(t)] + SumOf(v, n)
      BY <2>3 DEF n
    <3> QED BY <2>1, <2>3, <3>3, <3>4, <3>5, <3>6 DEF n
  <2> QED BY <2>2, <2>3
<1>6. \A s \in SUBSET m : k[s] = IF s = {} THEN 0 ELSE v[Pick(s)] + k[s \ {Pick(s)}]
  <2> SUFFICES ASSUME NEW s \in SUBSET m, s # {}
               PROVE  k[s] = v[Pick(s)] + k[s \ {Pick(s)}]
    OBVIOUS
  <2>1. s \ {Pick(s)} \in SUBSET m /\ s \ {Pick(s)} # m
    BY FirstIn
  <2>2. k[s \ {Pick(s)}] = SumOf(v, s \ {Pick(s)})
    BY <1>5, <2>1
  <2> QED BY <2>2
<1>7. k = [s \in SUBSET m |-> k[s]]
  OBVIOUS
<1> HIDE DEF k
<1>8. IsSum(v, m, k)
  BY <1>6, <1>7, SumIntro
<1> QED BY <1>3, <1>8

\* The first member, and the sum of the others.
LEMMA SumFirst ==
    ASSUME NEW v, NEW S, IsFiniteSet(S), S # {}
    PROVE  SumOf(v, S) = v[Pick(S)] + SumOf(v, S \ {Pick(S)})
<1> DEFINE n == S \ {Pick(S)}
           g == CHOOSE f : IsSum(v, S, f)
           h == CHOOSE f : IsSum(v, n, f)
<1>1. n \in SUBSET S /\ S \in SUBSET S
  OBVIOUS
<1>2. SumOf(v, S) = g[S] /\ SumOf(v, n) = h[n]
  BY DEF SumOf
<1>3. (\E f : IsSum(v, S, f)) /\ (\E f : IsSum(v, n, f))
  BY <1>1, SumExists
<1>4. IsSum(v, S, g) /\ IsSum(v, n, h)
  BY <1>3
<1> HIDE DEF g, h
<1>5. g[S] = v[Pick(S)] + g[n]
  BY <1>4, <1>1, SumStep
<1> HIDE DEF n
<1>6. Agree(g, h, n)
  <2>1. IsFiniteSet(S) /\ n \in SUBSET S /\ IsSum(v, S, g) /\ IsSum(v, n, h)
    BY <1>1, <1>4
  <2> QED BY <2>1, SumUnique
<1>7. g[n] = h[n]
  BY <1>6 DEF Agree
<1> QED BY <1>2, <1>5, <1>7 DEF n

LEMMA SumEmpty == ASSUME NEW v PROVE SumOf(v, {}) = 0
<1>1. IsFiniteSet({})
  BY FS_EmptySet
<1>2. IsSum(v, {}, CHOOSE g : IsSum(v, {}, g))
  BY <1>1, SumExists
<1> QED BY <1>2, SumStep DEF SumOf

\* A sum of natural numbers is one.
LEMMA SumType ==
    ASSUME NEW v, NEW S, IsFiniteSet(S), \A r \in S : v[r] \in Nat
    PROVE  SumOf(v, S) \in Nat
<1> DEFINE Bad == {T \in SUBSET S : SumOf(v, T) \notin Nat}
<1> SUFFICES ASSUME Bad # {}
             PROVE  FALSE
  OBVIOUS
<1>1. Bad \subseteq SUBSET S
  OBVIOUS
<1> HIDE DEF Bad
<1>2. PICK m \in Bad : \A t \in Bad : t \subseteq m => t = m
  BY <1>1, LeastSubset
<1> USE DEF Bad
<1>3. m \in SUBSET S /\ SumOf(v, m) \notin Nat
  OBVIOUS
<1>4. m # {}
  BY <1>3, SumEmpty
<1> DEFINE n == m \ {Pick(m)}
<1>5. Pick(m) \in m /\ v[Pick(m)] \in Nat
  BY <1>3, <1>4, FirstIn
<1>6. n \in SUBSET S /\ n \subseteq m /\ n # m
  BY <1>3, <1>5
<1>7. SumOf(v, n) \in Nat
  BY <1>2, <1>6
<1>8. IsFiniteSet(m)
  BY <1>3, FS_Subset
<1>9. SumOf(v, m) = v[Pick(m)] + SumOf(v, n)
  BY <1>4, <1>8, SumFirst
<1> QED BY <1>3, <1>5, <1>7, <1>9

\* A member that is not in S yet adds its value.
LEMMA SumAdds ==
    ASSUME NEW v, NEW S, IsFiniteSet(S), \A r \in S : v[r] \in Nat,
           NEW e, e \notin S, v[e] \in Nat
    PROVE  SumOf(v, S \cup {e}) = SumOf(v, S) + v[e]
<1> DEFINE W == S \cup {e}
           Bad == {T \in SUBSET W : \E x \in W : x \notin T /\ SumOf(v, T \cup {x}) # SumOf(v, T) + v[x]}
<1>0. IsFiniteSet(W) /\ \A r \in W : v[r] \in Nat
  BY FS_AddElement
<1> SUFFICES ASSUME Bad # {}
             PROVE  FALSE
  OBVIOUS
<1>1. Bad \subseteq SUBSET W
  OBVIOUS
<1> HIDE DEF W, Bad
<1>2. PICK m \in Bad : \A t \in Bad : t \subseteq m => t = m
  BY <1>0, <1>1, LeastSubset
<1> USE DEF Bad
<1>3. m \in SUBSET W
  OBVIOUS
<1>4. PICK x \in W : x \notin m /\ SumOf(v, m \cup {x}) # SumOf(v, m) + v[x]
  OBVIOUS
<1> HIDE DEF Bad
<1> DEFINE t == m \cup {x}
           y == Pick(t)
           n == m \ {y}
<1>5. IsFiniteSet(t) /\ t # {} /\ y \in t /\ t \subseteq W
  <2>1. t \subseteq W
    BY <1>3
  <2>2. t # {} /\ IsFiniteSet(t)
    BY <1>0, <2>1, FS_Subset
  <2> QED BY <2>1, <2>2, FirstIn
<1>6. SumOf(v, t) = v[y] + SumOf(v, t \ {y})
  BY <1>5, SumFirst
<1>7. \A s \in SUBSET W : SumOf(v, s) \in Nat
  BY <1>0, FS_Subset, SumType
<1>8. v[y] \in Nat /\ v[x] \in Nat
  BY <1>0, <1>5
<1> HIDE DEF y
<1>9. CASE y = x
  <2>1. t \ {y} = m
    BY <1>4, <1>9
  <2>2. SumOf(v, t) = v[x] + SumOf(v, m)
    BY <1>6, <1>9, <2>1
  <2>3. SumOf(v, m) \in Nat
    BY <1>3, <1>7
  <2> QED BY <1>4, <1>8, <2>2, <2>3
<1>10. CASE y # x
  <2>1. y \in m /\ y \in W
    BY <1>5, <1>10
  <2>2. /\ t \ {y} = n \cup {x} /\ n \cup {y} = m
        /\ n \in SUBSET W /\ n \subseteq m /\ n # m /\ x \notin n /\ y \notin n
    BY <1>3, <1>4, <1>10, <2>1
  <2> HIDE DEF n
  <2>3. n \notin Bad
    BY <1>2, <2>2
  <2>4. SumOf(v, n \cup {x}) = SumOf(v, n) + v[x] /\ SumOf(v, n \cup {y}) = SumOf(v, n) + v[y]
    BY <2>1, <2>2, <2>3 DEF Bad
  <2>5. SumOf(v, t) = v[y] + (SumOf(v, n) + v[x]) /\ SumOf(v, m) = SumOf(v, n) + v[y]
    BY <1>6, <2>2, <2>4
  <2>6. SumOf(v, t) = SumOf(v, m) + v[x]
    BY <1>7, <1>8, <2>2, <2>5
  <2> QED BY <1>4, <2>6
<1> QED BY <1>9, <1>10

LEMMA SumUnion ==
    ASSUME NEW v, NEW S, IsFiniteSet(S), NEW T, IsFiniteSet(T), S \cap T = {},
           \A r \in S \cup T : v[r] \in Nat
    PROVE  SumOf(v, S \cup T) = SumOf(v, S) + SumOf(v, T)
<1> DEFINE Bad == {U \in SUBSET T : SumOf(v, S \cup U) # SumOf(v, S) + SumOf(v, U)}
<1> SUFFICES ASSUME Bad # {}
             PROVE  FALSE
  OBVIOUS
<1>1. Bad \subseteq SUBSET T
  OBVIOUS
<1> HIDE DEF Bad
<1>2. PICK m \in Bad : \A t \in Bad : t \subseteq m => t = m
  BY <1>1, LeastSubset
<1> USE DEF Bad
<1>3. m \in SUBSET T /\ SumOf(v, S \cup m) # SumOf(v, S) + SumOf(v, m)
  OBVIOUS
<1>4. SumOf(v, S) \in Nat
  BY SumType
<1>5. CASE m = {}
  <2>1. S \cup m = S /\ SumOf(v, m) = 0
    BY <1>5, SumEmpty
  <2>2. SumOf(v, S \cup m) = SumOf(v, S)
    BY <2>1
  <2> HIDE DEF Bad
  <2> QED BY <1>3, <1>4, <2>1, <2>2
<1>6. CASE m # {}
  <2>1. PICK x \in m : TRUE
    BY <1>6
  <2> DEFINE n == m \ {x}
  <2>2. /\ n \in SUBSET T /\ n \subseteq m /\ n # m /\ n \cup {x} = m
        /\ x \notin S \cup n /\ (S \cup n) \cup {x} = S \cup m
    BY <1>3, <2>1
  <2>3. v[x] \in Nat /\ (\A r \in n : v[r] \in Nat) /\ (\A r \in S \cup n : v[r] \in Nat)
    BY <1>3, <2>1, <2>2
  <2>4. IsFiniteSet(n) /\ IsFiniteSet(S \cup n)
    BY <2>2, FS_Subset, FS_Union
  <2> HIDE DEF n
  <2>5. SumOf(v, S \cup n) = SumOf(v, S) + SumOf(v, n)
    BY <1>2, <2>2
  <2>6. SumOf(v, (S \cup n) \cup {x}) = SumOf(v, S \cup n) + v[x]
    BY <2>2, <2>3, <2>4, SumAdds
  <2>7. SumOf(v, n \cup {x}) = SumOf(v, n) + v[x]
    BY <2>2, <2>3, <2>4, SumAdds
  <2>8. SumOf(v, n) \in Nat
    BY <2>3, <2>4, SumType
  <2>9. SumOf(v, S \cup m) = (SumOf(v, S) + SumOf(v, n)) + v[x] /\ SumOf(v, m) = SumOf(v, n) + v[x]
    BY <2>2, <2>5, <2>6, <2>7
  <2>10. SumOf(v, S \cup m) = SumOf(v, S) + SumOf(v, m)
    BY <2>9, <2>8, <2>3, <1>4
  <2> QED BY <1>3, <2>10
<1> QED BY <1>5, <1>6

-----------------------------------------------------------------------------
(***************************************************************************)
(* Paths in a tree.                                                        *)
(***************************************************************************)
Up(n) == Statistic!Path(n)

TreeOK == pid \in Trees

LEMMA TreeFacts ==
    ASSUME TreeOK
    PROVE  /\ pid \in [StatNode -> (StatNode \ Leaf) \cup {Top}]
           /\ \A S \in SUBSET StatNode \ {{}} : \E n \in S : pid[n] \notin S
           /\ Top \notin StatNode /\ Leaf \subseteq StatNode
BY WalkAssumption DEF TreeOK, Statistic!StatisticAssumption

LEMMA PathSmallest ==
    ASSUME NEW n, NEW S \in SUBSET StatNode, n \in S,
           \A k \in S : pid[k] \in StatNode => pid[k] \in S
    PROVE  Up(n) \subseteq S
BY DEF Up, Statistic!Path

LEMMA PathSelf == ASSUME NEW n \in StatNode PROVE n \in Up(n)
BY DEF Up, Statistic!Path

LEMMA PathNodes == ASSUME NEW n PROVE Up(n) \subseteq StatNode
BY DEF Up, Statistic!Path

LEMMA PathCloses ==
    ASSUME NEW n \in StatNode, NEW k \in Up(n), pid[k] \in StatNode PROVE pid[k] \in Up(n)
<1> SUFFICES ASSUME NEW S \in SUBSET StatNode,
                    n \in S, \A j \in S : pid[j] \in StatNode => pid[j] \in S
             PROVE  pid[k] \in S
  BY DEF Up, Statistic!Path
<1>1. Up(n) \subseteq S
  BY PathSmallest
<1> QED BY <1>1

LEMMA PathUp ==
    ASSUME NEW n \in StatNode, pid[n] \in StatNode PROVE Up(n) = {n} \cup Up(pid[n])
<1>1. Up(n) \subseteq {n} \cup Up(pid[n])
  <2> DEFINE S == {n} \cup Up(pid[n])
  <2>1. S \in SUBSET StatNode /\ n \in S
    BY PathNodes
  <2>2. \A k \in S : pid[k] \in StatNode => pid[k] \in S
    BY PathSelf, PathCloses
  <2> HIDE DEF S
  <2>3. Up(n) \subseteq S
    BY <2>1, <2>2, PathSmallest
  <2> QED BY <2>3 DEF S
<1>2. n \in Up(n)
  BY PathSelf
<1>3. Up(pid[n]) \subseteq Up(n)
  <2>1. pid[n] \in Up(n)
    BY <1>2, PathCloses
  <2>2. Up(n) \in SUBSET StatNode
    BY PathNodes
  <2>3. \A k \in Up(n) : pid[k] \in StatNode => pid[k] \in Up(n)
    BY PathCloses
  <2> QED BY <2>1, <2>2, <2>3, PathSmallest
<1> QED BY <1>1, <1>2, <1>3

LEMMA PathTop ==
    ASSUME NEW n \in StatNode, pid[n] \notin StatNode PROVE Up(n) = {n}
<1> DEFINE S == {n}
<1>1. S \in SUBSET StatNode /\ n \in S /\ \A k \in S : pid[k] \in StatNode => pid[k] \in S
  OBVIOUS
<1>2. n \in Up(n)
  BY PathSelf
<1> HIDE DEF S
<1>3. Up(n) \subseteq S
  BY <1>1, PathSmallest
<1> QED BY <1>2, <1>3 DEF S

LEMMA PathAcyclic ==
    ASSUME TreeOK, NEW n \in StatNode, pid[n] \in StatNode PROVE n \notin Up(pid[n])
<1> SUFFICES ASSUME n \in Up(pid[n]) PROVE FALSE
  OBVIOUS
<1> DEFINE S == {x \in Up(pid[n]) : n \in Up(x)}
<1>1. S \in SUBSET StatNode /\ pid[n] \in S
  BY PathNodes, PathSelf
<1>2. ASSUME NEW x \in S PROVE pid[x] \in S
  <2>1. CASE x = n
    BY <1>1, <2>1
  <2>2. CASE x # n
    <3>1. x \in StatNode /\ x \in Up(pid[n]) /\ n \in Up(x)
      BY <1>1
    <3>2. pid[x] \in StatNode
      BY <3>1, <2>2, PathTop
    <3>3. n \in Up(pid[x])
      BY <3>1, <3>2, <2>2, PathUp
    <3>4. pid[x] \in Up(pid[n])
      BY <3>1, <3>2, PathCloses
    <3> QED BY <3>3, <3>4
  <2> QED BY <2>1, <2>2
<1>3. \E x \in S : pid[x] \notin S
  <2> HIDE DEF S
  <2>1. S # {}
    BY <1>1
  <2> QED BY <1>1, <2>1, TreeFacts
<1> QED BY <1>2, <1>3

LEMMA PathLeaf ==
    ASSUME TreeOK, NEW n \in StatNode, NEW m \in Leaf, m \in Up(n) PROVE m = n
<1> DEFINE S == {n} \cup (StatNode \ Leaf)
<1>1. S \in SUBSET StatNode /\ n \in S
  OBVIOUS
<1>2. \A k \in S : pid[k] \in StatNode => pid[k] \in S
  BY TreeFacts
<1>3. Up(n) \subseteq S
  <2> HIDE DEF S
  <2> QED BY <1>1, <1>2, PathSmallest
<1> QED BY <1>3

(***************************************************************************)
(* What a call that nothing overlaps has done to the rows so far.          *)
(***************************************************************************)
Acc(S) == SumOf(accounts, S)
At(n) == {r \in Realm : node_id[r] = n}

\* The row of m, in s, holds the accounts of the realms in S.
RowIs(s, m, S) == IF m \in DOMAIN s THEN s[m] = Acc(S) ELSE S = {}

\* The realms counted at m when the leaves in D were added to the folders above,
\* and those of leaf n besides, as far as the walk up from n has come to u.
Gathered(m, D) ==
    IF m \in Leaf THEN At(m) ELSE {r \in Realm : node_id[r] \in D /\ m \in Up(node_id[r])}
Climbed(m, n, u) == {r \in At(n) : m \notin Leaf /\ m \in Up(n) /\ (m = u \/ m \notin Up(u))}

WalkOK(k, s) ==
    /\ k.at # "idle"
    /\ k.at = "realms" => \A m \in StatNode : RowIs(s, m, At(m) \ k.realms)
    /\ k.at = "open" => \A m \in StatNode : RowIs(s, m, At(m))
    /\ k.at = "leaves" =>
          /\ k.leaves \subseteq DOMAIN s
          /\ \A m \in StatNode : RowIs(s, m, Gathered(m, Leaf \ k.leaves))
    /\ k.at = "folder" =>
          /\ k.leaves \subseteq DOMAIN s
          /\ \E n \in Leaf \ k.leaves :
                /\ k.node \in Up(n) /\ k.i = Acc(At(n))
                /\ \A m \in StatNode :
                      RowIs(s, m, Gathered(m, Leaf \ (k.leaves \cup {n})) \cup Climbed(m, n, k.node))
    /\ k.at = "select" =>
          \A m \in StatNode : RowIs(s, m, {r \in Realm : m \in Up(node_id[r])})

AnswerOK(k, c) ==
    k.at = "done" => k.answer = Acc({r \in Realm : Asked[c] \in Up(node_id[r])})

WalkInv ==
    \A c \in alone :
        /\ WalkOK(walk[c], stat) /\ AnswerOK(walk[c], c)
        /\ c \in Statistic!Running => Statistic!Running = {c}

LEMMA AccFacts ==
    ASSUME Statistic!TypeOK
    PROVE  /\ Acc({}) = 0
           /\ \A S \in SUBSET Realm : Acc(S) \in Nat
           /\ \A S, T \in SUBSET Realm : S \cap T = {} => Acc(S \cup T) = Acc(S) + Acc(T)
           /\ \A r \in Realm : Acc({r}) = accounts[r]
<1>1. IsFiniteSet(Realm) /\ \A r \in Realm : accounts[r] \in Nat
  BY WalkAssumption DEF Statistic!TypeOK, Statistic!StatisticAssumption,
     Statistic!IsFiniteSet, IsFiniteSet
<1>2. Acc({}) = 0
  BY SumEmpty DEF Acc
<1>3. ASSUME NEW S \in SUBSET Realm PROVE IsFiniteSet(S) /\ \A r \in S : accounts[r] \in Nat
  BY <1>1, FS_Subset
<1>4. ASSUME NEW S \in SUBSET Realm PROVE Acc(S) \in Nat
  BY <1>3, SumType DEF Acc
<1>5. ASSUME NEW S \in SUBSET Realm, NEW T \in SUBSET Realm, S \cap T = {}
      PROVE  Acc(S \cup T) = Acc(S) + Acc(T)
  <2>1. IsFiniteSet(S) /\ IsFiniteSet(T) /\ \A r \in S \cup T : accounts[r] \in Nat
    BY <1>3
  <2> QED BY <1>5, <2>1, SumUnion DEF Acc
<1>6. ASSUME NEW r \in Realm PROVE Acc({r}) = accounts[r]
  <2>1. SumOf(accounts, {} \cup {r}) = SumOf(accounts, {}) + accounts[r]
    BY <1>1, FS_EmptySet, SumAdds
  <2>2. {} \cup {r} = {r} /\ accounts[r] \in Nat
    BY <1>1
  <2> QED BY <2>1, <2>2, SumEmpty DEF Acc
<1> QED BY <1>2, <1>4, <1>5, <1>6

\* The library's operator is the sum the lemmas are about.
LEMMA TotalIsSum ==
    ASSUME NEW n PROVE Statistic!Total(n) = Acc({r \in Realm : n \in Up(node_id[r])})
BY DEF Statistic!Total, Statistic!MapThenSumSet, Statistic!MapThenFoldSet, Acc, SumOf, IsSum, Up

\* An addition to the row of n.
LEMMA AddRow ==
    ASSUME Statistic!TypeOK, NEW n \in StatNode, NEW S \in SUBSET Realm, NEW T \in SUBSET Realm,
           S \cap T = {}, RowIs(stat, n, S), NEW i, i = Acc(T)
    PROVE  /\ RowIs(Statistic!Added(n, i), n, S \cup T)
           /\ DOMAIN Statistic!Added(n, i) = DOMAIN stat \cup {n}
           /\ \A m \in StatNode \ {n}, R \in SUBSET Realm :
                 RowIs(stat, m, R) => RowIs(Statistic!Added(n, i), m, R)
<1> DEFINE s == Statistic!Added(n, i)
<1>1. DOMAIN s = DOMAIN stat \cup {n}
  BY DEF Statistic!Added
<1>2. \A m \in DOMAIN stat \ {n} : s[m] = stat[m]
  BY DEF Statistic!Added
<1>3. Acc(S \cup T) = Acc(S) + Acc(T) /\ Acc(S) \in Nat /\ Acc(T) \in Nat /\ Acc({}) = 0
  BY AccFacts
<1>4. s[n] = Acc(S \cup T)
  <2>1. CASE n \in DOMAIN stat
    <3>1. s[n] = stat[n] + i /\ stat[n] = Acc(S)
      BY <2>1 DEF Statistic!Added, RowIs
    <3> QED BY <3>1, <1>3
  <2>2. CASE n \notin DOMAIN stat
    <3>1. s[n] = i /\ S = {}
      BY <2>2 DEF Statistic!Added, RowIs
    <3> QED BY <3>1, <1>3
  <2> QED BY <2>1, <2>2
<1>5. ASSUME NEW m \in StatNode \ {n}, NEW R \in SUBSET Realm, RowIs(stat, m, R)
      PROVE  RowIs(s, m, R)
  <2> HIDE DEF s
  <2> QED BY <1>1, <1>2, <1>5 DEF RowIs
<1> QED BY <1>1, <1>4, <1>5 DEF RowIs

\* What a step of d makes of its record and of the rows keeps what WalkOK says.
WalkSteps(d) == WalkOK(walk'[d], stat') /\ AnswerOK(walk'[d], d)

LEMMA Leaves ==
    ASSUME Statistic!TypeOK
    PROVE  /\ TreeOK
           /\ \A r \in Realm : node_id[r] \in Leaf /\ node_id[r] \in StatNode
           /\ \A n : At(n) \in SUBSET Realm
           /\ \A m, D : Gathered(m, D) \in SUBSET Realm
           /\ \A m, n, u : Climbed(m, n, u) \in SUBSET Realm
<1>1. TreeOK /\ node_id \in [Realm -> Leaf]
  BY DEF Statistic!TypeOK, TreeOK
<1>2. Leaf \subseteq StatNode
  BY <1>1, TreeFacts
<1> QED BY <1>1, <1>2 DEF At, Gathered, Climbed

LEMMA AddRealmStep ==
    ASSUME Statistic!TypeOK, NEW d \in Walk, WalkOK(walk[d], stat), Statistic!AddRealm(d)
    PROVE  WalkSteps(d)
<1> DEFINE k == walk[d]
           k1 == walk'[d]
<1>1. k.at = "realms" /\ \A m \in StatNode : RowIs(stat, m, At(m) \ k.realms)
  BY DEF Statistic!AddRealm, WalkOK
<1>2. ASSUME NEW r \in k.realms, stat' = Statistic!Added(node_id[r], accounts[r]),
             walk' = [walk EXCEPT ![d].realms = @ \ {r}, ![d].i = accounts[r]]
      PROVE  WalkSteps(d)
  <2>1. k1.at = "realms" /\ k1.realms = k.realms \ {r} /\ r \in Realm
    BY <1>1, <1>2 DEF Statistic!TypeOK
  <2> DEFINE n == node_id[r]
             S == At(n) \ k.realms
  <2>2. n \in StatNode /\ S \in SUBSET Realm /\ S \cap {r} = {} /\ {r} \in SUBSET Realm
    BY <2>1, <1>2, Leaves
  <2>3. Acc({r}) = accounts[r]
    BY <2>1, AccFacts
  <2>4. RowIs(stat, n, S)
    BY <1>1, <2>2
  <2>5. /\ RowIs(stat', n, S \cup {r})
        /\ \A m \in StatNode \ {n}, R \in SUBSET Realm : RowIs(stat, m, R) => RowIs(stat', m, R)
    <3> HIDE DEF S, n
    <3>1. stat' = Statistic!Added(n, accounts[r])
      BY <1>2 DEF n
    <3> QED BY <3>1, <2>2, <2>3, <2>4, AddRow
  <2>6. ASSUME NEW m \in StatNode PROVE RowIs(stat', m, At(m) \ k1.realms)
    <3>1. CASE m = n
      <4>1. At(m) \ k1.realms = S \cup {r}
        BY <2>1, <3>1 DEF At
      <4> QED BY <2>5, <3>1, <4>1
    <3>2. CASE m # n
      <4>1. At(m) \ k1.realms = At(m) \ k.realms /\ At(m) \ k.realms \in SUBSET Realm
        BY <2>1, <3>2 DEF At
      <4> HIDE DEF k, k1
      <4>2. RowIs(stat, m, At(m) \ k.realms)
        BY <1>1
      <4> QED BY <2>5, <3>2, <4>1, <4>2
    <3> QED BY <3>1, <3>2
  <2> QED BY <2>1, <2>6 DEF WalkSteps, WalkOK, AnswerOK
<1>3. ASSUME k.realms = {}, Statistic!Go(d, "open"), UNCHANGED stat PROVE WalkSteps(d)
  <2>1. k1.at = "open"
    BY <1>3 DEF Statistic!Go, Statistic!TypeOK
  <2>2. ASSUME NEW m \in StatNode PROVE RowIs(stat', m, At(m))
    <3>1. At(m) \ k.realms = At(m)
      BY <1>3
    <3> QED BY <1>1, <1>3, <3>1
  <2> QED BY <2>1, <2>2 DEF WalkSteps, WalkOK, AnswerOK
<1> QED BY <1>2, <1>3 DEF Statistic!AddRealm

LEMMA OpenLeavesStep ==
    ASSUME Statistic!TypeOK, NEW d \in Walk, WalkOK(walk[d], stat), Statistic!OpenLeaves(d)
    PROVE  WalkSteps(d)
<1> DEFINE k1 == walk'[d]
<1>1. \A m \in StatNode : RowIs(stat, m, At(m))
  BY DEF Statistic!OpenLeaves, WalkOK
<1>2. k1.at = "leaves" /\ k1.leaves = DOMAIN stat \cap Leaf /\ UNCHANGED stat
  BY DEF Statistic!OpenLeaves, Statistic!TypeOK
<1> HIDE DEF k1
<1>3. ASSUME NEW m \in StatNode PROVE RowIs(stat, m, Gathered(m, Leaf \ k1.leaves))
  <2>1. CASE m \in Leaf
    BY <2>1, <1>1 DEF Gathered
  <2>2. CASE m \notin Leaf
    <3>1. At(m) = {}
      BY <2>2, Leaves DEF At
    <3>2. ASSUME NEW r \in Realm PROVE node_id[r] \in DOMAIN stat
      <4>1. r \in At(node_id[r]) /\ node_id[r] \in StatNode
        BY Leaves DEF At
      <4> QED BY <4>1, <1>1 DEF RowIs
    <3>3. Gathered(m, Leaf \ k1.leaves) = {}
      BY <2>2, <3>2, <1>2 DEF Gathered
    <3> QED BY <1>1, <3>1, <3>3
  <2> QED BY <2>1, <2>2
<1> QED BY <1>2, <1>3 DEF WalkSteps, WalkOK, AnswerOK, k1

LEMMA FetchLeafStep ==
    ASSUME Statistic!TypeOK, NEW d \in Walk, WalkOK(walk[d], stat), Statistic!FetchLeaf(d)
    PROVE  WalkSteps(d)
<1> DEFINE k == walk[d]
           k1 == walk'[d]
<1>1. /\ k.leaves \subseteq DOMAIN stat /\ k.leaves \subseteq Leaf
      /\ \A m \in StatNode : RowIs(stat, m, Gathered(m, Leaf \ k.leaves))
  BY DEF Statistic!FetchLeaf, WalkOK, Statistic!TypeOK
<1>2. UNCHANGED stat
  BY DEF Statistic!FetchLeaf
<1>3. ASSUME NEW n \in k.leaves,
             walk' = [walk EXCEPT
                 ![d].at = "folder", ![d].node = n, ![d].depth = 0,
                 ![d].leaves = IF n \in DOMAIN stat THEN @ \ {n} ELSE {},
                 ![d].i = IF n \in DOMAIN stat THEN stat[n] ELSE @]
      PROVE  WalkSteps(d)
  <2>1. n \in Leaf /\ n \in StatNode /\ n \in DOMAIN stat
    BY <1>1, <1>3, Leaves, TreeFacts
  <2>2. k1.at = "folder" /\ k1.node = n /\ k1.leaves = k.leaves \ {n} /\ k1.i = stat[n]
    BY <1>3, <2>1 DEF Statistic!TypeOK
  <2> HIDE DEF k1, k
  <2>3. stat[n] = Acc(At(n))
    BY <1>1, <2>1 DEF RowIs, Gathered
  <2>4. Leaf \ (k1.leaves \cup {n}) = Leaf \ k.leaves
    BY <1>3, <2>2
  <2>5. ASSUME NEW m \in StatNode PROVE Climbed(m, n, n) = {}
    BY <2>1 DEF Climbed
  <2>6. ASSUME NEW m \in StatNode
        PROVE  RowIs(stat, m, Gathered(m, Leaf \ (k1.leaves \cup {n})) \cup Climbed(m, n, k1.node))
    <3>1. Gathered(m, Leaf \ (k1.leaves \cup {n})) \cup Climbed(m, n, k1.node)
            = Gathered(m, Leaf \ k.leaves)
      BY <2>2, <2>4, <2>5
    <3> QED BY <1>1, <3>1
  <2>7. k1.leaves \subseteq DOMAIN stat /\ n \in Leaf \ k1.leaves /\ k1.node \in Up(n)
        /\ k1.i = Acc(At(n))
    BY <1>1, <2>1, <2>2, <2>3, PathSelf
  <2>8. WalkOK(k1, stat)
    BY <2>2, <2>6, <2>7 DEF WalkOK
  <2> QED BY <1>2, <2>2, <2>8 DEF WalkSteps, AnswerOK, k1
<1>4. ASSUME k.leaves = {}, Statistic!Go(d, "select") PROVE WalkSteps(d)
  <2>1. k1.at = "select"
    BY <1>4 DEF Statistic!Go, Statistic!TypeOK
  <2>2. ASSUME NEW m \in StatNode PROVE RowIs(stat, m, {r \in Realm : m \in Up(node_id[r])})
    <3>1. Gathered(m, Leaf) = {r \in Realm : m \in Up(node_id[r])}
      BY Leaves, PathLeaf, PathSelf DEF Gathered, At
    <3>2. Leaf \ k.leaves = Leaf
      BY <1>4
    <3> QED BY <1>1, <3>1, <3>2
  <2> QED BY <1>2, <2>1, <2>2 DEF WalkSteps, WalkOK, AnswerOK
<1> QED BY <1>3, <1>4 DEF Statistic!FetchLeaf

LEMMA SelectStep ==
    ASSUME Statistic!TypeOK, NEW d \in Walk, WalkOK(walk[d], stat), Statistic!Select(d)
    PROVE  WalkSteps(d)
<1> DEFINE k1 == walk'[d]
           n == Asked[d]
           S == {r \in Realm : n \in Up(node_id[r])}
<1>1. k1.at = "done" /\ k1.answer = IF n \in DOMAIN stat THEN stat[n] ELSE 0
  BY DEF Statistic!Select, Statistic!TypeOK
<1>2. n \in StatNode
  BY WalkAssumption DEF Statistic!StatisticAssumption
<1>3. RowIs(stat, n, S)
  BY <1>2 DEF Statistic!Select, WalkOK
<1>4. k1.answer = Acc(S)
  <2> HIDE DEF S, k1, n
  <2> QED BY <1>1, <1>3, AccFacts DEF RowIs
<1> QED BY <1>1, <1>4 DEF WalkSteps, WalkOK, AnswerOK

LEMMA AddFolderStep ==
    ASSUME Statistic!TypeOK, NEW d \in Walk, WalkOK(walk[d], stat), Statistic!AddFolder(d)
    PROVE  WalkSteps(d)
<1> DEFINE k == walk[d]
           k1 == walk'[d]
           u == k.node
           up == pid[u]
<1>1. k.at = "folder" /\ k.leaves \subseteq DOMAIN stat
  BY DEF Statistic!AddFolder, WalkOK
<1>2. PICK n \in Leaf \ k.leaves :
          /\ u \in Up(n) /\ k.i = Acc(At(n))
          /\ \A m \in StatNode :
                RowIs(stat, m, Gathered(m, Leaf \ (k.leaves \cup {n})) \cup Climbed(m, n, u))
  BY <1>1 DEF WalkOK
<1>3. n \in StatNode /\ u \in StatNode /\ TreeOK
  BY <1>2, Leaves, TreeFacts, PathNodes
<1>4. ASSUME up \notin StatNode, Statistic!Go(d, "leaves"), UNCHANGED stat PROVE WalkSteps(d)
  <2>1. k1.at = "leaves" /\ k1.leaves = k.leaves
    BY <1>4 DEF Statistic!Go, Statistic!TypeOK
  <2>2. Up(u) = {u}
    BY <1>3, <1>4, PathTop
  <2> HIDE DEF k1, k, u
  <2>3. ASSUME NEW m \in StatNode PROVE RowIs(stat, m, Gathered(m, Leaf \ k.leaves))
    <3>1. Gathered(m, Leaf \ k.leaves)
            = Gathered(m, Leaf \ (k.leaves \cup {n})) \cup Climbed(m, n, u)
      BY <1>2, <2>2, Leaves DEF Gathered, Climbed, At
    <3> QED BY <1>2, <3>1
  <2>4. WalkOK(k1, stat)
    BY <1>1, <2>1, <2>3 DEF WalkOK
  <2> QED BY <1>4, <2>1, <2>4 DEF WalkSteps, AnswerOK, k1
<1>5. ASSUME up \in StatNode, stat' = Statistic!Added(up, k.i),
             walk' = [walk EXCEPT ![d].node = up, ![d].depth = @ + 1]
      PROVE  WalkSteps(d)
  <2>1. k1.at = "folder" /\ k1.leaves = k.leaves /\ k1.node = up /\ k1.i = k.i
    BY <1>1, <1>5 DEF Statistic!TypeOK
  <2>2. /\ Up(u) = {u} \cup Up(up) /\ u \notin Up(up) /\ up \in Up(up)
        /\ up \in Up(n) /\ up \notin Leaf
    BY <1>2, <1>3, <1>5, PathUp, PathAcyclic, PathSelf, PathCloses, TreeFacts
  <2> DEFINE D == Leaf \ (k.leaves \cup {n})
             S == Gathered(up, D)
  <2> HIDE DEF k1, k, u, up
  <2>3. Climbed(up, n, u) = {}
    BY <2>2 DEF Climbed
  <2>4. S \in SUBSET Realm /\ At(n) \in SUBSET Realm /\ S \cap At(n) = {}
    <3>1. S = {r \in Realm : node_id[r] \in D /\ up \in Up(node_id[r])}
      BY <2>2 DEF Gathered
    <3> QED BY <3>1 DEF At
  <2>5. RowIs(stat, up, S)
    <3>1. Gathered(up, D) \cup Climbed(up, n, u) = S
      BY <2>3
    <3> HIDE DEF S, D
    <3> QED BY <1>2, <1>5, <3>1 DEF D
  <2>6. /\ RowIs(stat', up, S \cup At(n))
        /\ DOMAIN stat' = DOMAIN stat \cup {up}
        /\ \A m \in StatNode \ {up}, R \in SUBSET Realm : RowIs(stat, m, R) => RowIs(stat', m, R)
    <3> HIDE DEF S
    <3> QED BY <1>2, <1>5, <2>4, <2>5, AddRow
  <2>7. ASSUME NEW m \in StatNode PROVE RowIs(stat', m, Gathered(m, D) \cup Climbed(m, n, up))
    <3>1. CASE m = up
      <4>1. Climbed(m, n, up) = At(n)
        BY <2>2, <3>1 DEF Climbed, At
      <4> QED BY <2>6, <3>1, <4>1
    <3>2. CASE m # up
      <4>1. Climbed(m, n, up) = Climbed(m, n, u)
        BY <2>2, <3>2 DEF Climbed
      <4>2. Gathered(m, D) \cup Climbed(m, n, u) \in SUBSET Realm
        BY Leaves
      <4>3. RowIs(stat, m, Gathered(m, D) \cup Climbed(m, n, u))
        BY <1>2
      <4> HIDE DEF D
      <4> QED BY <2>6, <3>2, <4>1, <4>2, <4>3
    <3> QED BY <3>1, <3>2
  <2>8. n \in Leaf \ k.leaves /\ k1.node \in Up(n) /\ k1.i = Acc(At(n)) /\ k.leaves \subseteq DOMAIN stat'
    BY <1>1, <1>2, <2>1, <2>2, <2>6
  <2>9. WalkOK(k1, stat')
    BY <2>1, <2>7, <2>8 DEF WalkOK
  <2> QED BY <2>1, <2>9 DEF WalkSteps, AnswerOK, k1
<1>6. ASSUME Statistic!Go(d, "failed") PROVE WalkSteps(d)
  <2>1. k1.at = "failed"
    BY <1>6 DEF Statistic!Go, Statistic!TypeOK
  <2> QED BY <2>1 DEF WalkSteps, WalkOK, AnswerOK
<1> QED BY <1>4, <1>5, <1>6 DEF Statistic!AddFolder

LEMMA EmptyStep ==
    ASSUME Statistic!TypeOK, NEW d \in Walk, Statistic!Empty(d) PROVE WalkSteps(d)
<1>1. walk'[d].at = "realms" /\ walk'[d].realms = Realm /\ DOMAIN stat' = {}
  BY DEF Statistic!Empty, Statistic!Begin, Statistic!TypeOK
<1>2. ASSUME NEW m \in StatNode PROVE RowIs(stat', m, At(m) \ walk'[d].realms)
  BY <1>1 DEF RowIs, At
<1> QED BY <1>1, <1>2 DEF WalkSteps, WalkOK, AnswerOK

\* What TypeOK says of the records.
Records == walk \in [Walk -> [at : {"idle", "realms", "open", "leaves", "folder", "select", "done",
                                    "failed"},
                              realms : SUBSET Realm, leaves : SUBSET Leaf,
                              node : StatNode \cup {Top}, depth : 0..MaxRecursion,
                              i : Nat, answer : Nat]]
Rows == DOMAIN stat \subseteq StatNode /\ \A n \in DOMAIN stat : stat[n] \in Nat

LEMMA StatisticTypes ==
    ASSUME Statistic!TypeOK, NEW d \in Walk, Statistic!Step(d) PROVE Statistic!TypeOK'
<1>1. Records /\ Rows /\ TreeOK /\ alone \subseteq Walk
  BY DEF Statistic!TypeOK, Records, Rows, TreeOK
<1>2. UNCHANGED <<pid, node_id, accounts>> /\ alone' \subseteq Walk
  BY <1>1 DEF Statistic!Step, Statistic!Empty, Statistic!Begin, Statistic!AddRealm,
     Statistic!OpenLeaves, Statistic!FetchLeaf, Statistic!AddFolder, Statistic!Select, Statistic!Data
<1>3. ASSUME NEW n \in StatNode, NEW i \in Nat, stat' = Statistic!Added(n, i) PROVE Rows'
  BY <1>1, <1>3 DEF Rows, Statistic!Added
<1>4. ASSUME UNCHANGED stat PROVE Rows'
  BY <1>1, <1>4 DEF Rows
<1>5. ASSUME NEW at, Statistic!Go(d, at),
             at \in {"open", "leaves", "select", "failed"}
      PROVE  Records'
  BY <1>1, <1>5 DEF Records, Statistic!Go
<1> SUFFICES Records' /\ Rows'
  BY <1>2 DEF Statistic!TypeOK, Records, Rows
<1>6. CASE Statistic!Empty(d)
  <2>1. Records'
    BY <1>1, <1>6 DEF Statistic!Empty, Statistic!Begin, Records
  <2> QED BY <2>1, <1>6 DEF Statistic!Empty, Rows
<1>7. CASE Statistic!AddRealm(d)
  <2>1. ASSUME NEW r \in walk[d].realms, stat' = Statistic!Added(node_id[r], accounts[r]),
               walk' = [walk EXCEPT ![d].realms = @ \ {r}, ![d].i = accounts[r]]
        PROVE  Records' /\ Rows'
    <3>1. r \in Realm
      BY <1>1, <2>1 DEF Records
    <3>2. node_id[r] \in StatNode /\ accounts[r] \in Nat
      BY <3>1, Leaves, WalkAssumption DEF Statistic!StatisticAssumption, Statistic!TypeOK
    <3>3. walk[d].realms \ {r} \in SUBSET Realm
      BY <1>1 DEF Records
    <3>4. Records'
      BY <1>1, <2>1, <3>2, <3>3 DEF Records
    <3> QED BY <1>3, <2>1, <3>2, <3>4
  <2> QED BY <1>4, <1>5, <1>7, <2>1 DEF Statistic!AddRealm
<1>8. CASE Statistic!OpenLeaves(d)
  <2>1. Records'
    BY <1>1, <1>8 DEF Statistic!OpenLeaves, Records
  <2> QED BY <2>1, <1>4, <1>8 DEF Statistic!OpenLeaves
<1>9. CASE Statistic!FetchLeaf(d)
  <2>1. ASSUME NEW n \in walk[d].leaves, NEW l, NEW i,
               l = (IF n \in DOMAIN stat THEN walk[d].leaves \ {n} ELSE {}),
               i = (IF n \in DOMAIN stat THEN stat[n] ELSE walk[d].i),
               walk' = [walk EXCEPT ![d].at = "folder", ![d].node = n, ![d].depth = 0,
                                    ![d].leaves = l, ![d].i = i]
        PROVE  Records'
    <3>1. n \in StatNode /\ l \in SUBSET Leaf /\ i \in Nat /\ 0 \in 0..MaxRecursion
      BY <1>1, <2>1, TreeFacts, WalkAssumption DEF Records, Rows, Statistic!StatisticAssumption
    <3>2. n \in StatNode \cup {Top} /\ "folder" \in {"idle", "realms", "open", "leaves", "folder",
                                                   "select", "done", "failed"}
      BY <3>1
    <3> QED BY <1>1, <2>1, <3>1, <3>2 DEF Records
  <2>2. ASSUME NEW n \in walk[d].leaves,
               walk' = [walk EXCEPT
                   ![d].at = "folder", ![d].node = n, ![d].depth = 0,
                   ![d].leaves = IF n \in DOMAIN stat THEN @ \ {n} ELSE {},
                   ![d].i = IF n \in DOMAIN stat THEN stat[n] ELSE @]
        PROVE  Records'
    <3> DEFINE l == IF n \in DOMAIN stat THEN walk[d].leaves \ {n} ELSE {}
               i == IF n \in DOMAIN stat THEN stat[n] ELSE walk[d].i
    <3>1. walk' = [walk EXCEPT ![d].at = "folder", ![d].node = n, ![d].depth = 0,
                               ![d].leaves = l, ![d].i = i]
      BY <1>1, <2>2 DEF Records
    <3> QED BY <2>1, <3>1
  <2> QED BY <1>4, <1>5, <1>9, <2>2 DEF Statistic!FetchLeaf
<1>10. CASE Statistic!AddFolder(d)
  <2> DEFINE up == pid[walk[d].node]
  <2>1. walk[d].i \in Nat
    BY <1>1 DEF Records
  <2>2. ASSUME up \in StatNode, stat' = Statistic!Added(up, walk[d].i) PROVE Rows'
    <3> HIDE DEF up
    <3> QED BY <1>3, <2>1, <2>2
  <2>3. ASSUME up \in StatNode, walk[d].depth < MaxRecursion,
               walk' = [walk EXCEPT ![d].node = up, ![d].depth = @ + 1]
        PROVE  Records'
    <3>1. walk[d].depth + 1 \in 0..MaxRecursion
      BY <1>1, <2>3, WalkAssumption DEF Records, Statistic!StatisticAssumption
    <3> HIDE DEF up
    <3> QED BY <1>1, <2>3, <3>1 DEF Records
  <2> QED BY <1>4, <1>5, <1>10, <2>2, <2>3 DEF Statistic!AddFolder
<1>11. CASE Statistic!Select(d)
  <2> DEFINE a == IF Asked[d] \in DOMAIN stat THEN stat[Asked[d]] ELSE 0
  <2>1. a \in Nat
    BY <1>1 DEF Rows
  <2>2. walk' = [walk EXCEPT ![d].at = "done", ![d].answer = a]
    BY <1>11 DEF Statistic!Select
  <2> HIDE DEF a
  <2>3. Records'
    BY <1>1, <2>1, <2>2 DEF Records
  <2> QED BY <2>3, <1>4, <1>11 DEF Statistic!Select
<1> QED BY <1>6, <1>7, <1>8, <1>9, <1>10, <1>11 DEF Statistic!Step

\* A step leaves the tree and the realms alone, and what is said of them.
LEMMA SameTree ==
    ASSUME UNCHANGED <<pid, node_id, accounts>>
    PROVE  /\ \A n : Up(n)' = Up(n)
           /\ \A S : Acc(S)' = Acc(S)
           /\ \A n : At(n)' = At(n)
BY DEF Acc, At, Up, Statistic!Path

LEMMA SameCounts ==
    ASSUME UNCHANGED <<pid, node_id, accounts>>
    PROVE  /\ \A m, D : Gathered(m, D)' = Gathered(m, D)
           /\ \A m, n, u : Climbed(m, n, u)' = Climbed(m, n, u)
           /\ \A s, m, S : RowIs(s, m, S)' = RowIs(s, m, S)
<1> USE SameTree
<1>1. ASSUME NEW m, NEW D PROVE Gathered(m, D)' = Gathered(m, D)
  <2>1. {r \in Realm : node_id[r] \in D /\ m \in Up(node_id[r])}'
          = {r \in Realm : node_id[r] \in D /\ m \in Up(node_id[r])}
    OBVIOUS
  <2> QED BY <2>1 DEF Gathered
<1>2. ASSUME NEW m, NEW n, NEW u PROVE Climbed(m, n, u)' = Climbed(m, n, u)
  BY DEF Climbed
<1>3. ASSUME NEW s, NEW m, NEW S PROVE RowIs(s, m, S)' = RowIs(s, m, S)
  BY DEF RowIs
<1> QED BY <1>1, <1>2, <1>3

LEMMA WalkSame ==
    ASSUME UNCHANGED <<pid, node_id, accounts>>, NEW c,
           WalkOK(walk'[c], stat'), AnswerOK(walk'[c], c)
    PROVE  (WalkOK(walk[c], stat) /\ AnswerOK(walk[c], c))'
<1> DEFINE P == {r \in Realm : Asked[c] \in Up(node_id[r])}
<1> USE SameTree, SameCounts
<1>1. P' = P
  OBVIOUS
<1>2. AnswerOK(walk[c], c)'
  BY <1>1 DEF AnswerOK
<1>3. \A m : {r \in Realm : m \in Up(node_id[r])}' = {r \in Realm : m \in Up(node_id[r])}
  OBVIOUS
<1>4. WalkOK(walk[c], stat)'
  <2>1. CASE walk'[c].at = "realms"
    BY <2>1 DEF WalkOK
  <2>2. CASE walk'[c].at = "open"
    BY <2>2 DEF WalkOK
  <2>3. CASE walk'[c].at = "leaves"
    BY <2>3 DEF WalkOK
  <2>4. CASE walk'[c].at = "folder"
    BY <2>4 DEF WalkOK
  <2>5. CASE walk'[c].at = "select"
    BY <2>5, <1>3 DEF WalkOK
  <2>6. CASE walk'[c].at \notin {"realms", "open", "leaves", "folder", "select"}
    BY <2>6 DEF WalkOK
  <2> QED BY <2>1, <2>2, <2>3, <2>4, <2>5, <2>6
<1> QED BY <1>2, <1>4
LEMMA StepOK ==
    ASSUME Statistic!TypeOK, NEW d \in Walk, Statistic!Step(d),
           WalkOK(walk[d], stat) \/ Statistic!Empty(d)
    PROVE  WalkSteps(d)
BY AddRealmStep, OpenLeavesStep, FetchLeafStep, SelectStep, AddFolderStep, EmptyStep
   DEF Statistic!Step

\* A step is of one call: it moves on, and the others stay where they are.
LEMMA OneMoves ==
    ASSUME Statistic!TypeOK, NEW d \in Walk, Statistic!Step(d)
    PROVE  /\ UNCHANGED <<pid, node_id, accounts>>
           /\ \A c \in Walk \ {d} : walk'[c] = walk[c]
           /\ \/ /\ Statistic!Empty(d) /\ d \notin Statistic!Running
                 /\ alone' = IF Statistic!Running = {} THEN alone \cup {d}
                             ELSE alone \ Statistic!Running
              \/ d \in Statistic!Running /\ UNCHANGED alone
           /\ Statistic!Running' \subseteq Statistic!Running \cup {d}
<1> USE DEF Statistic!TypeOK
<1>1. UNCHANGED <<pid, node_id, accounts>>
  BY DEF Statistic!Step, Statistic!Empty, Statistic!Begin, Statistic!AddRealm,
     Statistic!OpenLeaves, Statistic!FetchLeaf, Statistic!AddFolder, Statistic!Select, Statistic!Data
<1>2. \A c \in Walk \ {d} : walk'[c] = walk[c]
  BY DEF Statistic!Step, Statistic!Empty, Statistic!Begin, Statistic!AddRealm, Statistic!Go,
     Statistic!OpenLeaves, Statistic!FetchLeaf, Statistic!AddFolder, Statistic!Select
<1>3. \/ /\ Statistic!Empty(d) /\ d \notin Statistic!Running
         /\ alone' = IF Statistic!Running = {} THEN alone \cup {d} ELSE alone \ Statistic!Running
      \/ d \in Statistic!Running /\ UNCHANGED alone
  BY DEF Statistic!Step, Statistic!Empty, Statistic!Begin, Statistic!AddRealm, Statistic!Running,
     Statistic!OpenLeaves, Statistic!FetchLeaf, Statistic!AddFolder, Statistic!Select
<1>4. Statistic!Running' \subseteq Statistic!Running \cup {d}
  BY <1>2 DEF Statistic!Running
<1> QED BY <1>1, <1>2, <1>3, <1>4

LEMMA WalkInvStep ==
    ASSUME Statistic!TypeOK, WalkInv, [Statistic!Next]_(Statistic!vars)
    PROVE  WalkInv'
<1>1. CASE UNCHANGED Statistic!vars
  <2>1. UNCHANGED <<pid, node_id, accounts>> /\ UNCHANGED <<stat, walk, alone>>
    BY <1>1 DEF Statistic!vars
  <2>2. Statistic!Running' = Statistic!Running
    BY <2>1 DEF Statistic!Running
  <2>3. ASSUME NEW c \in alone
        PROVE  WalkOK(walk'[c], stat') /\ AnswerOK(walk'[c], c)
    BY <2>1, <2>3 DEF WalkInv
  <2>4. ASSUME NEW c \in alone
        PROVE  (WalkOK(walk[c], stat) /\ AnswerOK(walk[c], c))'
    BY <2>1, <2>3, WalkSame
  <2> QED BY <2>1, <2>2, <2>4 DEF WalkInv
<1>2. ASSUME NEW d \in Walk, Statistic!Step(d) PROVE WalkInv'
  <2> USE <1>2
  <2>1. /\ UNCHANGED <<pid, node_id, accounts>>
        /\ \A c \in Walk \ {d} : walk'[c] = walk[c]
        /\ \/ /\ Statistic!Empty(d) /\ d \notin Statistic!Running
              /\ alone' = IF Statistic!Running = {} THEN alone \cup {d}
                          ELSE alone \ Statistic!Running
           \/ d \in Statistic!Running /\ UNCHANGED alone
        /\ Statistic!Running' \subseteq Statistic!Running \cup {d}
    BY OneMoves
  <2>2. alone \subseteq Walk
    BY DEF Statistic!TypeOK
  <2>3. ASSUME NEW c \in alone', c # d
        PROVE  c \in alone /\ c \notin Statistic!Running /\ walk'[c] = walk[c]
    BY <2>1, <2>2, <2>3 DEF WalkInv
  <2>4. ASSUME NEW c \in alone', c # d
        PROVE  WalkOK(walk'[c], stat') /\ AnswerOK(walk'[c], c) /\ c \notin Statistic!Running'
    <3>1. WalkOK(walk[c], stat) /\ AnswerOK(walk[c], c)
      BY <2>3, <2>4 DEF WalkInv
    <3>2. walk[c].at \in {"idle", "done", "failed"}
      BY <2>2, <2>3, <2>4 DEF Statistic!Running
    <3>3. walk[c].at \in {"done", "failed"}
      BY <3>1, <3>2 DEF WalkOK
    <3>4. WalkOK(walk[c], stat')
      BY <3>3 DEF WalkOK
    <3> QED BY <2>1, <2>3, <2>4, <3>1, <3>4
  <2>5. ASSUME d \in alone'
        PROVE  WalkOK(walk'[d], stat') /\ AnswerOK(walk'[d], d) /\ Statistic!Running' \subseteq {d}
    <3>1. CASE Statistic!Empty(d)
      <4>1. ~ (Statistic!Running # {} /\ d \in alone)
        <5> SUFFICES ASSUME d \in alone PROVE FALSE
          OBVIOUS
        <5>1. walk[d].at = "idle"
          BY <3>1 DEF Statistic!Empty, Statistic!Begin
        <5> QED BY <5>1 DEF WalkInv, WalkOK
      <4>2. Statistic!Running = {}
        BY <2>1, <2>5, <3>1, <4>1
      <4> QED BY <2>1, <3>1, <4>2, StepOK DEF WalkSteps
    <3>2. CASE ~ Statistic!Empty(d)
      <4>1. d \in Statistic!Running /\ d \in alone
        BY <2>1, <2>5, <3>2
      <4>2. WalkOK(walk[d], stat) /\ Statistic!Running = {d}
        BY <4>1 DEF WalkInv
      <4> QED BY <2>1, <4>2, StepOK DEF WalkSteps
    <3> QED BY <3>1, <3>2
  <2>6. ASSUME NEW c \in alone'
        PROVE  /\ WalkOK(walk'[c], stat') /\ AnswerOK(walk'[c], c)
               /\ c \in Statistic!Running' => Statistic!Running' = {c}
    BY <2>4, <2>5
  <2>7. ASSUME NEW c \in alone'
        PROVE  (WalkOK(walk[c], stat) /\ AnswerOK(walk[c], c))'
    BY <2>1, <2>6, WalkSame
  <2> QED BY <2>6, <2>7 DEF WalkInv
<1> QED BY <1>1, <1>2 DEF Statistic!Next

\* make_node_statistic answers GET /NodeStatistic with the number of accounts below
\* the node, whatever the calls before it left in node_statistic, if it answers and
\* no other call ran meanwhile: for every tree, whatever its depth, since a walk that
\* max_sp_recursion_depth ends has no answer.
THEOREM AnswersExact == Statistic!Spec => []StatisticExact
<1>1. Statistic!Init => Statistic!TypeOK /\ WalkInv
  <2> SUFFICES ASSUME Statistic!Init PROVE Statistic!TypeOK /\ WalkInv
    OBVIOUS
  <2>1. 0 \in 0..MaxRecursion
    BY WalkAssumption DEF Statistic!StatisticAssumption
  <2> QED BY <2>1 DEF Statistic!Init, Statistic!TypeOK, WalkInv
<1>2. Statistic!TypeOK /\ [Statistic!Next]_(Statistic!vars) => Statistic!TypeOK'
  <2>1. ASSUME Statistic!TypeOK, UNCHANGED Statistic!vars PROVE Statistic!TypeOK'
    BY <2>1 DEF Statistic!TypeOK, Statistic!vars
  <2> QED BY <2>1, StatisticTypes DEF Statistic!Next
<1>3. Statistic!TypeOK /\ WalkInv /\ [Statistic!Next]_(Statistic!vars) => WalkInv'
  BY WalkInvStep
<1>4. Statistic!TypeOK /\ WalkInv => StatisticExact
  <2> SUFFICES ASSUME Statistic!TypeOK, WalkInv PROVE Statistic!ExactAlone
    BY DEF StatisticExact
  <2>1. ASSUME NEW c \in alone, walk[c].at = "done"
        PROVE  walk[c].answer = Statistic!Total(Asked[c])
    BY <2>1, TotalIsSum DEF WalkInv, AnswerOK
  <2> QED BY <2>1 DEF Statistic!ExactAlone
<1> QED BY <1>1, <1>2, <1>3, <1>4, PTL DEF Statistic!Spec
=============================================================================

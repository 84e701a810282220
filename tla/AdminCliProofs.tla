--------------------------- MODULE AdminCliProofs ---------------------------
(***************************************************************************)
(* Proofs about AdminCli and ApiAccess, for any projects, keys and scopes  *)
(* and any number of commands and requests.                                *)
(*                                                                         *)
(* The invariant has three parts: what a request carries comes from rows   *)
(* that were in force since it began (Sound); a key has one row, ever      *)
(* (OneRowPerKey), so that taking a row away takes the key away; and what  *)
(* is reported as gone, or is about to be, is gone for good (Away,         *)
(* GoneIsGone, ReportIsTrue), as keys are never issued twice.              *)
(***************************************************************************)
EXTENDS AdminCli, TLAPS

-----------------------------------------------------------------------------
(* Types.                                                                  *)

CliTypeOK ==
  /\ cli \in [Admins -> {"open", "ended"}]
  /\ revoking \in [Admins -> SUBSET Grant]
  /\ gone \in SUBSET Grant
  /\ barred \in [Requests -> SUBSET Grant]

\* A key is created only after its project was found, and projects stay.
ChecksHold ==
  \A a \in Admins : admin[a].pc = "checked" => admin[a].project \subseteq projects

Types == TypeOK /\ CliTypeOK /\ ChecksHold

LEMMA TypesAtFirst == CliInit => Types
<1> SUFFICES ASSUME CliInit PROVE Types  OBVIOUS
<1>1. Existing \subseteq Projects  BY ConstantsAssumption
<1>2. admin \in [Admins -> [pc : {"idle", "checked", "done"},
                            project : SUBSET Projects, scopes : SUBSET Scopes,
                            code : AdminCode]]
  BY DEF CliInit, Init, AdminCode
<1>3. req \in [Requests -> Request]
  BY DEF CliInit, Init, Request, RequestPc, Kinds, Code
<1>4. TypeOK  BY <1>1, <1>2, <1>3 DEF CliInit, Init, TypeOK
<1>5. CliTypeOK  BY DEF CliInit, CliTypeOK
<1>6. ChecksHold  BY DEF CliInit, Init, ChecksHold
<1> QED  BY <1>4, <1>5, <1>6 DEF Types

\* The steps of an admin request.
Handles(a) ==
  \/ AdminFails(a)
  \/ \E p \in Projects : \/ CreateProject(a, p)
                         \/ \E s \in Scopes : CheckProject(a, p, s)
                         \/ \E k \in Keys : Revoke(a, p, k)
  \/ \E k \in Keys : CreateKey(a, k)

AdminType == [pc : {"idle", "checked", "done"}, project : SUBSET Projects,
              scopes : SUBSET Scopes, code : AdminCode]

LEMMA AdminTypes ==
  ASSUME TypeOK, ChecksHold, NEW a \in Admins, Handles(a)
  PROVE  TypeOK'
<1>0. admin \in [Admins -> AdminType]  BY DEF TypeOK, AdminType
<1>1. ASSUME NEW code \in AdminCode, AdminDone(a, code)
      PROVE  admin' \in [Admins -> AdminType]
  BY <1>0, <1>1 DEF AdminDone, AdminType
<1>2. CASE AdminFails(a)
  <2>1. admin' \in [Admins -> AdminType]
    BY <1>1, <1>2 DEF AdminFails, AdminCode
  <2>2. UNCHANGED <<projects, keys, req, issued, live, gap>>
    BY <1>2 DEF AdminFails, histories
  <2> QED  BY <2>1, <2>2 DEF TypeOK, AdminType
<1>3. ASSUME NEW p \in Projects, CreateProject(a, p)
      PROVE  TypeOK'
  <2>1. admin' \in [Admins -> AdminType]
    BY <1>1, <1>3 DEF CreateProject, AdminCode
  <2>2. UNCHANGED <<keys, req, issued, live, gap>>
        /\ projects' = projects \cup {p}
    BY <1>3 DEF CreateProject, histories
  <2> QED  BY <2>1, <2>2 DEF TypeOK, AdminType
<1>4. ASSUME NEW p \in Projects, NEW s \in Scopes,
             CheckProject(a, p, s)
      PROVE  TypeOK'
  <2>1. admin' \in [Admins -> AdminType]
    <3>1. CASE p \in projects
      BY <1>0, <1>4, <3>1 DEF CheckProject, AdminType
    <3>2. CASE p \notin projects
      BY <1>1, <1>4, <3>2 DEF CheckProject, AdminCode
    <3> QED  BY <3>1, <3>2
  <2>2. UNCHANGED <<projects, keys, req, issued, live, gap>>
    BY <1>4 DEF CheckProject, histories
  <2> QED  BY <2>1, <2>2 DEF TypeOK, AdminType
<1>5. ASSUME NEW p \in Projects, NEW k \in Keys,
             Revoke(a, p, k)
      PROVE  TypeOK'
  <2>1. admin' \in [Admins -> AdminType]
    BY <1>1, <1>5 DEF Revoke, AdminCode
  <2>2. UNCHANGED <<projects, req, issued, live>> /\ keys' \subseteq keys
    BY <1>5 DEF Revoke
  <2>3. gap' \in [Requests -> SUBSET Keys]
    BY <1>5 DEF Revoke, TypeOK, RowsOf, KeysIn
  <2> QED  BY <2>1, <2>2, <2>3 DEF TypeOK, AdminType
<1>6. ASSUME NEW k \in Keys, CreateKey(a, k) PROVE TypeOK'
  <2>1. admin' \in [Admins -> AdminType]
    BY <1>1, <1>6 DEF CreateKey, AdminCode
  <2>2. PICK p \in admin[a].project, s \in admin[a].scopes :
          LET row == [key |-> k, project |-> p, scopes |-> s]
          IN /\ keys' = keys \cup {row}
             /\ issued' = issued \cup {row}
             /\ live' = [q \in Requests |-> live[q] \cup {row}]
    BY <1>6 DEF CreateKey
  <2> DEFINE row == [key |-> k, project |-> p, scopes |-> s]
  <2>4. p \in projects /\ projects \subseteq Projects /\ s \in Scopes
    BY <1>0, <1>6, <2>2 DEF CreateKey, ChecksHold, AdminType, TypeOK
  <2>5. row \in KeyRow /\ row \in [key : Keys, project : projects, scopes : Scopes]
    BY <2>4 DEF KeyRow
  <2>3. UNCHANGED <<projects, req, gap>>  BY <1>6 DEF CreateKey
  <2>6. keys' = keys \cup {row} /\ issued' = issued \cup {row}
        /\ live' = [q \in Requests |-> live[q] \cup {row}]
    BY <2>2
  <2> HIDE DEF row
  <2> QED  BY <2>1, <2>3, <2>5, <2>6 DEF TypeOK, AdminType
<1> QED  BY <1>2, <1>3, <1>4, <1>5, <1>6 DEF Handles

-----------------------------------------------------------------------------
(* What the steps of a project request do to its record.                   *)

\* A step of q alone, which leaves everything else as it is.
Alone(q) ==
  /\ UNCHANGED <<projects, keys, admin, issued, live, gap>>
  /\ req' \in [Requests -> Request]
  /\ \A r \in Requests \ {q} : req'[r] = req[r]
  /\ req'[q].kind = req[q].kind
  /\ req'[q].bearer = req[q].bearer

\* It changes where the request is and the named fields only.
Becomes(q, pc, cached, bucket, principal, code) ==
  /\ Alone(q)
  /\ req'[q].pc = pc
  /\ req'[q].cached = cached
  /\ req'[q].bucket = bucket
  /\ req'[q].principal = principal
  /\ req'[q].code = code

Unmoved == UNCHANGED <<projects, keys, admin, issued, live, gap>>

LEMMA Answers ==
  ASSUME TypeOK, NEW q \in Requests, NEW code \in Code, Answer(q, code), Unmoved
  PROVE  Becomes(q, "done", req[q].cached, req[q].bucket, req[q].principal, code)
<1>1. req \in [Requests -> Request]  BY DEF TypeOK
<1>0. "done" \in RequestPc  BY DEF RequestPc
<1>2. req' \in [Requests -> Request]  BY <1>0, <1>1 DEF Answer, Request
<1> QED  BY <1>1, <1>2 DEF Answer, Becomes, Alone, Unmoved, Request

LEMMA Goes ==
  ASSUME TypeOK, NEW q \in Requests, NEW pc \in RequestPc, Go(q, pc), Unmoved
  PROVE  Becomes(q, pc, req[q].cached, req[q].bucket, req[q].principal, req[q].code)
<1>1. req \in [Requests -> Request]  BY DEF TypeOK
<1>2. req' \in [Requests -> Request]  BY <1>1 DEF Go, Request
<1> QED  BY <1>1, <1>2 DEF Go, Becomes, Alone, Unmoved, Request

LEMMA Finds ==
  ASSUME TypeOK, NEW q \in Requests, NEW pc \in RequestPc, NEW rows \in SUBSET KeyRow,
         req' = [req EXCEPT ![q].pc = pc, ![q].cached = rows], Unmoved
  PROVE  Becomes(q, pc, rows, req[q].bucket, req[q].principal, req[q].code)
<1>1. req \in [Requests -> Request]  BY DEF TypeOK
<1>2. req' \in [Requests -> Request]  BY <1>1 DEF Request
<1> QED  BY <1>1, <1>2 DEF Becomes, Alone, Unmoved, Request

LEMMA Holds ==
  ASSUME TypeOK, NEW q \in Requests, NEW pc \in RequestPc, NEW rows \in SUBSET KeyRow,
         req' = [req EXCEPT ![q].pc = pc, ![q].principal = rows], Unmoved
  PROVE  Becomes(q, pc, req[q].cached, req[q].bucket, rows, req[q].code)
<1>1. req \in [Requests -> Request]  BY DEF TypeOK
<1>2. req' \in [Requests -> Request]  BY <1>1 DEF Request
<1> QED  BY <1>1, <1>2 DEF Becomes, Alone, Unmoved, Request

LEMMA Passes ==
  ASSUME TypeOK, NEW q \in Requests, NEW pc \in RequestPc,
         NEW b \in Keys \cup {"none", "ip"},
         req' = [req EXCEPT ![q].bucket = b, ![q].pc = pc], Unmoved
  PROVE  Becomes(q, pc, req[q].cached, b, req[q].principal, req[q].code)
<1>1. req \in [Requests -> Request]  BY DEF TypeOK
<1>2. req' \in [Requests -> Request]  BY <1>1 DEF Request
<1> QED  BY <1>1, <1>2 DEF Becomes, Alone, Unmoved, Request

\* The bucket is charged, and refuses or fails.
TurnedAway(q, b, code) ==
  req' = [req EXCEPT ![q].bucket = b, ![q].pc = "done", ![q].code = code]

LEMMA IsTurnedAway ==
  ASSUME TypeOK, NEW q \in Requests, NEW code \in Code,
         NEW b \in Keys \cup {"none", "ip"}, Unmoved, TurnedAway(q, b, code)
  PROVE  Becomes(q, "done", req[q].cached, b, req[q].principal, code)
<1>1. req \in [Requests -> Request]  BY DEF TypeOK
<1>2. PICK mid : mid = [req EXCEPT ![q].bucket = b, ![q].pc = "done"]  OBVIOUS
<1>3. "done" \in RequestPc  BY DEF RequestPc
<1>4. mid \in [Requests -> Request]  BY <1>1, <1>2, <1>3 DEF Request
<1>5. req' = [mid EXCEPT ![q].code = code]  BY <1>2 DEF TurnedAway
<1>6. mid[q] \in Request  BY <1>4
<1>7. [mid[q] EXCEPT !.code = code] \in Request  BY <1>6 DEF Request
<1>8. req' = [mid EXCEPT ![q] = [mid[q] EXCEPT !.code = code]]  BY <1>4, <1>5
<1>9. req' \in [Requests -> Request]  BY <1>4, <1>7, <1>8
<1> QED  BY <1>1, <1>9 DEF TurnedAway, Becomes, Alone, Unmoved, Request

LEMMA RowsAreTyped ==
  ASSUME TypeOK, NEW k PROVE RowsOf(k) \in SUBSET KeyRow
BY DEF TypeOK, RowsOf, KeyRow

-----------------------------------------------------------------------------
(* The steps themselves.                                                   *)

LEMMA SizeEffect ==
  ASSUME TypeOK, NEW q \in Requests, Size(q)
  PROVE  /\ req[q].pc = "sizing"
         /\ \/ \E code \in {400, 413} :
                 Becomes(q, "done", req[q].cached, req[q].bucket,
                         req[q].principal, code)
            \/ \E pc \in {"lookup", "charging"} :
                 Becomes(q, pc, req[q].cached, req[q].bucket,
                         req[q].principal, req[q].code)
<1>1. Unmoved  BY DEF Size, histories, Unmoved
<1>2. (\E code \in {400, 413} : Answer(q, code))
      \/ \E pc \in {"lookup", "charging"} : Go(q, pc)
  BY DEF Size
<1>3. {400, 413} \subseteq Code /\ {"lookup", "charging"} \subseteq RequestPc
  BY DEF Code, RequestPc
<1>4. CASE \E code \in {400, 413} : Answer(q, code)
  <2>1. PICK code \in {400, 413} : Answer(q, code)  BY <1>4
  <2> QED  BY <1>1, <1>3, <2>1, Answers DEF Size
<1>5. CASE \E pc \in {"lookup", "charging"} : Go(q, pc)
  <2>1. PICK pc \in {"lookup", "charging"} : Go(q, pc)  BY <1>5
  <2> QED  BY <1>1, <1>3, <2>1, Goes DEF Size
<1> QED  BY <1>2, <1>4, <1>5

LEMMA LookUpEffect ==
  ASSUME TypeOK, NEW q \in Requests, LookUp(q)
  PROVE  /\ req[q].pc = "lookup"
         /\ \E found \in SUBSET RowsOf(req[q].bearer) :
              Becomes(q, "charging", found, req[q].bucket, req[q].principal,
                      req[q].code)
<1>1. Unmoved  BY DEF LookUp, histories, Unmoved
<1>2. PICK found \in {RowsOf(req[q].bearer), {}} :
        req' = [req EXCEPT ![q].pc = "charging", ![q].cached = found]
  BY DEF LookUp
<1>3. found \in SUBSET KeyRow /\ "charging" \in RequestPc
  BY RowsAreTyped DEF RequestPc
<1>4. Becomes(q, "charging", found, req[q].bucket, req[q].principal, req[q].code)
  BY <1>1, <1>2, <1>3, Finds
<1> QED  BY <1>4 DEF LookUp

LEMMA ChargeEffect ==
  ASSUME TypeOK, NEW q \in Requests, Charge(q)
  PROVE  /\ req[q].pc = "charging"
         /\ \E b \in {Bucket(q)} :
              \/ Becomes(q, "routing", req[q].cached, b, req[q].principal,
                         req[q].code)
              \/ \E code \in {429, 503} :
                   Becomes(q, "done", req[q].cached, b, req[q].principal, code)
<1>1. Unmoved  BY DEF Charge, histories, Unmoved
<1>2. PICK b \in {Bucket(q)} :
        \/ req' = [req EXCEPT ![q].bucket = b, ![q].pc = "routing"]
        \/ \E code \in {429, 503} : TurnedAway(q, b, code)
  BY DEF Charge, TurnedAway
<1>3. b \in Keys \cup {"none", "ip"}  BY DEF Bucket, TypeOK, Request
<1>4. 429 \in Code /\ 503 \in Code  BY DEF Code
<1>5. "routing" \in RequestPc /\ "done" \in RequestPc  BY DEF RequestPc
<1>6. CASE req' = [req EXCEPT ![q].bucket = b, ![q].pc = "routing"]
  <2>1. Becomes(q, "routing", req[q].cached, b, req[q].principal, req[q].code)
    BY <1>1, <1>3, <1>5, <1>6, Passes
  <2> QED  BY <2>1 DEF Charge
<1>7. CASE \E code \in {429, 503} : TurnedAway(q, b, code)
  <2>1. PICK code \in {429, 503} : TurnedAway(q, b, code)  BY <1>7
  <2>2. Becomes(q, "done", req[q].cached, b, req[q].principal, code)
    BY <1>1, <1>3, <1>4, <2>1, IsTurnedAway
  <2> QED  BY <2>2 DEF Charge
<1> QED  BY <1>2, <1>6, <1>7

LEMMA AuthenticateEffect ==
  ASSUME TypeOK, NEW q \in Requests, Authenticate(q)
  PROVE  /\ req[q].pc = "routing"
         /\ \/ Becomes(q, "authorized", req[q].cached, req[q].bucket, Known(q),
                       req[q].code)
            \/ /\ Known(q) = {}
               /\ Becomes(q, "done", req[q].cached, req[q].bucket,
                          req[q].principal, 401)
            \/ Becomes(q, "done", req[q].cached, req[q].bucket,
                       req[q].principal, 500)
<1>1. Unmoved  BY DEF Authenticate, histories, Unmoved
<1>2. Known(q) \in SUBSET KeyRow
  BY RowsAreTyped DEF Known, TypeOK, Request
<1>3. {401, 500} \subseteq Code /\ "authorized" \in RequestPc
  BY DEF Code, RequestPc
<1>4. CASE req' = [req EXCEPT ![q].pc = "authorized", ![q].principal = Known(q)]
  BY <1>1, <1>2, <1>3, <1>4, Holds DEF Authenticate
<1>5. CASE Known(q) = {} /\ Answer(q, 401)
  BY <1>1, <1>3, <1>5, Answers DEF Authenticate
<1>6. CASE Answer(q, 500)
  BY <1>1, <1>3, <1>6, Answers DEF Authenticate
<1> QED  BY <1>4, <1>5, <1>6 DEF Authenticate

LEMMA AuthorizeEffect ==
  ASSUME TypeOK, NEW q \in Requests, Authorize(q)
  PROVE  /\ req[q].pc = "authorized"
         /\ \E code \in {200, 403} :
              Becomes(q, "done", req[q].cached, req[q].bucket, req[q].principal, code)
<1>1. Unmoved  BY DEF Authorize, histories, Unmoved
<1>2. PICK code \in {200, 403} : Answer(q, code)
  BY DEF Authorize
<1>3. {200, 403} \subseteq Code  BY DEF Code
<1>4. Becomes(q, "done", req[q].cached, req[q].bucket, req[q].principal, code)
  BY <1>1, <1>2, <1>3, Answers
<1> QED  BY <1>4 DEF Authorize

\* A request that comes.
LEMMA ArriveEffect ==
  ASSUME TypeOK, NEW q \in Requests, NEW kind \in Kinds,
         NEW bearer \in Keys \cup {"none"}, Arrive(q, kind, bearer)
  PROVE  /\ req[q].pc = "idle"
         /\ UNCHANGED <<projects, keys, admin, issued>>
         /\ req' \in [Requests -> Request]
         /\ live' = [live EXCEPT ![q] = keys]
         /\ gap' = [gap EXCEPT ![q] = Keys \ KeysIn(keys)]
         /\ \A r \in Requests \ {q} : req'[r] = req[r]
         /\ req'[q].kind = kind /\ req'[q].bearer = bearer
         /\ req'[q].pc = IF Group(kind) \in Unlimited THEN "routing" ELSE "sizing"
         /\ req'[q].cached = req[q].cached /\ req'[q].bucket = req[q].bucket
         /\ req'[q].principal = req[q].principal /\ req'[q].code = req[q].code
<1>1. req \in [Requests -> Request]  BY DEF TypeOK
<1>2. PICK pc : pc = IF Group(kind) \in Unlimited THEN "routing" ELSE "sizing"
  OBVIOUS
<1>3. pc \in RequestPc  BY <1>2 DEF RequestPc
<1>4. PICK mid : mid = [req EXCEPT ![q].kind = kind, ![q].bearer = bearer]  OBVIOUS
<1>5. mid \in [Requests -> Request]  BY <1>1, <1>4 DEF Request
<1>6. req' = [mid EXCEPT ![q].pc = pc]  BY <1>2, <1>4 DEF Arrive
<1>7. req' \in [Requests -> Request]  BY <1>3, <1>5, <1>6 DEF Request
<1>8. /\ \A r \in Requests \ {q} : mid[r] = req[r]
      /\ mid[q].kind = kind /\ mid[q].bearer = bearer
      /\ mid[q].cached = req[q].cached /\ mid[q].bucket = req[q].bucket
      /\ mid[q].principal = req[q].principal /\ mid[q].code = req[q].code
  BY <1>1, <1>4 DEF Request
<1>9. /\ \A r \in Requests \ {q} : req'[r] = mid[r]
      /\ req'[q].kind = mid[q].kind /\ req'[q].bearer = mid[q].bearer
      /\ req'[q].pc = pc
      /\ req'[q].cached = mid[q].cached /\ req'[q].bucket = mid[q].bucket
      /\ req'[q].principal = mid[q].principal /\ req'[q].code = mid[q].code
  BY <1>3, <1>5, <1>6 DEF Request
<1>10. /\ req[q].pc = "idle"
       /\ UNCHANGED <<projects, keys, admin, issued>>
       /\ live' = [live EXCEPT ![q] = keys]
       /\ gap' = [gap EXCEPT ![q] = Keys \ KeysIn(keys)]
  BY DEF Arrive
<1> QED  BY <1>2, <1>7, <1>8, <1>9, <1>10

-----------------------------------------------------------------------------
(* One request: what it carries and what is known of the keys.             *)

Early == {"idle", "sizing", "lookup", "charging"}

\* Whatever was in force since the request began is in its history, and
\* whatever is not in force is in its gap.
HistoryIsKept(q) ==
  /\ live[q] \subseteq issued
  /\ req[q].pc # "idle" => /\ keys \subseteq live[q]
                           /\ Keys \ KeysIn(keys) \subseteq gap[q]

\* The rows it carries are its own key's, of the time since it began.
Own(q) == {row \in live[q] : row.key = req[q].bearer}
RowsAreOwn(q) == req[q].cached \subseteq Own(q) /\ req[q].principal \subseteq Own(q)

RefusedForGap(q) ==
  req[q].code = 401 => req[q].bearer = "none" \/ req[q].bearer \in gap[q]

BucketIsOwn(q) ==
  req[q].bucket \in Keys => /\ req[q].bucket = req[q].bearer
                            /\ req[q].bucket \in KeysIn(live[q])

\* Nothing is charged or answered before its time.
InOrder(q) ==
  /\ req[q].pc \in Early => req[q].bucket = "none" /\ req[q].principal = {}
  /\ req[q].pc = "idle" => req[q].cached = {}
  /\ req[q].pc # "done" => req[q].code = 0
  /\ req[q].pc \in Early \ {"idle"} => Group(req[q].kind) \notin Unlimited

Past(q) == req[q].pc \in {"routing", "authorized"} \/ req[q].code = 200

ChargedWhenPast(q) ==
  Past(q) => /\ Group(req[q].kind) \in Unlimited <=> req[q].bucket = "none"
             /\ req[q].cached # {} => req[q].bucket = req[q].bearer

Sound(q) ==
  /\ HistoryIsKept(q) /\ RowsAreOwn(q) /\ RefusedForGap(q) /\ BucketIsOwn(q)
  /\ InOrder(q) /\ ChargedWhenPast(q)

\* A step of another request.
LEMMA OtherStaysSound ==
  ASSUME NEW r \in Requests, Sound(r), UNCHANGED <<keys, issued>>,
         req'[r] = req[r], live'[r] = live[r], gap'[r] = gap[r]
  PROVE  Sound(r)'
BY DEF Sound, HistoryIsKept, Own, RowsAreOwn, RefusedForGap, BucketIsOwn, InOrder,
       Past, ChargedWhenPast

\* The rows found in api_keys now are the request's own.
LEMMA FoundIsOwn ==
  ASSUME NEW q \in Requests, HistoryIsKept(q), req[q].pc # "idle"
  PROVE  /\ RowsOf(req[q].bearer) \subseteq Own(q)
         /\ RowsOf(req[q].bearer) = {} /\ req[q].bearer \in Keys
              => req[q].bearer \in gap[q]
BY DEF HistoryIsKept, RowsOf, Own, KeysIn

LEMMA SizeKeeps ==
  ASSUME TypeOK, NEW q \in Requests, Sound(q), Size(q) PROVE Sound(q)' /\ Alone(q)
<1>1. CASE \E code \in {400, 413} :
             Becomes(q, "done", req[q].cached, req[q].bucket, req[q].principal, code)
  BY <1>1, SizeEffect
     DEF Becomes, Alone, Sound, HistoryIsKept, Own, RowsAreOwn, RefusedForGap,
         BucketIsOwn, InOrder, Past, ChargedWhenPast, Early
<1>2. CASE \E pc \in {"lookup", "charging"} :
             Becomes(q, pc, req[q].cached, req[q].bucket, req[q].principal,
                     req[q].code)
  BY <1>2, SizeEffect
     DEF Becomes, Alone, Sound, HistoryIsKept, Own, RowsAreOwn, RefusedForGap,
         BucketIsOwn, InOrder, Past, ChargedWhenPast, Early
<1> QED  BY <1>1, <1>2, SizeEffect

LEMMA LookUpKeeps ==
  ASSUME TypeOK, NEW q \in Requests, Sound(q), LookUp(q) PROVE Sound(q)' /\ Alone(q)
<1>1. PICK found \in SUBSET RowsOf(req[q].bearer) :
        Becomes(q, "charging", found, req[q].bucket, req[q].principal, req[q].code)
  BY LookUpEffect
<1>2. req[q].pc = "lookup"  BY LookUpEffect
<1>3. found \subseteq Own(q)  BY <1>2, FoundIsOwn DEF Sound
<1> QED
  BY <1>1, <1>2, <1>3
     DEF Becomes, Alone, Sound, HistoryIsKept, Own, RowsAreOwn, RefusedForGap,
         BucketIsOwn, InOrder, Past, ChargedWhenPast, Early

LEMMA ChargeKeeps ==
  ASSUME TypeOK, NEW q \in Requests, Sound(q), Charge(q) PROVE Sound(q)' /\ Alone(q)
<1>1. PICK b \in {Bucket(q)} :
        \/ Becomes(q, "routing", req[q].cached, b, req[q].principal, req[q].code)
        \/ \E code \in {429, 503} :
             Becomes(q, "done", req[q].cached, b, req[q].principal, code)
  BY ChargeEffect
<1>2. req[q].pc = "charging"  BY ChargeEffect
<1>3. /\ b # "none"
      /\ b \in Keys => b = req[q].bearer /\ b \in KeysIn(live[q])
      /\ req[q].cached # {} => b = req[q].bearer
  <2>1. CASE req[q].cached = {}
    BY <2>1, ConstantsAssumption DEF Bucket
  <2>2. CASE req[q].cached # {}
    <3>1. PICK row \in req[q].cached : row \in live[q] /\ row.key = req[q].bearer
      BY <2>2 DEF Sound, RowsAreOwn, Own
    <3>2. row.key \in Keys  BY <3>1 DEF TypeOK, KeyRow
    <3>3. b = row.key /\ row.key \in KeysIn(live[q])
      BY <2>2, <3>1 DEF Bucket, KeysIn
    <3> QED  BY <3>1, <3>2, <3>3, ConstantsAssumption
  <2> QED  BY <2>1, <2>2
<1>4. CASE Becomes(q, "routing", req[q].cached, b, req[q].principal, req[q].code)
  BY <1>2, <1>3, <1>4
     DEF Becomes, Alone, Sound, HistoryIsKept, Own, RowsAreOwn, RefusedForGap,
         BucketIsOwn, InOrder, Past, ChargedWhenPast, Early
<1>5. CASE \E code \in {429, 503} :
             Becomes(q, "done", req[q].cached, b, req[q].principal, code)
  BY <1>2, <1>3, <1>5
     DEF Becomes, Alone, Sound, HistoryIsKept, Own, RowsAreOwn, RefusedForGap,
         BucketIsOwn, InOrder, Past, ChargedWhenPast, Early
<1> QED  BY <1>1, <1>4, <1>5

LEMMA AuthenticateKeeps ==
  ASSUME TypeOK, NEW q \in Requests, Sound(q), Authenticate(q)
  PROVE  Sound(q)' /\ Alone(q)
<1>1. req[q].pc = "routing"  BY AuthenticateEffect
<1>2. Known(q) \subseteq Own(q)  BY <1>1, FoundIsOwn DEF Known, Sound, RowsAreOwn
<1>3. req[q].bearer \in Keys \cup {"none"}  BY DEF TypeOK, Request
<1>4. Known(q) = {} => req[q].bearer = "none" \/ req[q].bearer \in gap[q]
  BY <1>1, <1>3, FoundIsOwn DEF Known, Sound
<1>5. CASE Becomes(q, "authorized", req[q].cached, req[q].bucket, Known(q),
                   req[q].code)
  <2> PICK known : known = Known(q)  OBVIOUS
  <2> QED
    BY <1>1, <1>2, <1>5
       DEF Becomes, Alone, Sound, HistoryIsKept, Own, RowsAreOwn, RefusedForGap,
           BucketIsOwn, InOrder, Past, ChargedWhenPast, Early
<1>6. CASE /\ Known(q) = {}
           /\ Becomes(q, "done", req[q].cached, req[q].bucket, req[q].principal, 401)
  BY <1>1, <1>4, <1>6
     DEF Becomes, Alone, Sound, HistoryIsKept, Own, RowsAreOwn, RefusedForGap,
         BucketIsOwn, InOrder, Past, ChargedWhenPast, Early
<1>7. CASE Becomes(q, "done", req[q].cached, req[q].bucket, req[q].principal, 500)
  BY <1>1, <1>7
     DEF Becomes, Alone, Sound, HistoryIsKept, Own, RowsAreOwn, RefusedForGap,
         BucketIsOwn, InOrder, Past, ChargedWhenPast, Early
<1> QED  BY <1>5, <1>6, <1>7, AuthenticateEffect

LEMMA AuthorizeKeeps ==
  ASSUME TypeOK, NEW q \in Requests, Sound(q), Authorize(q)
  PROVE  Sound(q)' /\ Alone(q)
<1>1. PICK code \in {200, 403} :
        Becomes(q, "done", req[q].cached, req[q].bucket, req[q].principal, code)
  BY AuthorizeEffect
<1>2. req[q].pc = "authorized"  BY AuthorizeEffect
<1> QED
  BY <1>1, <1>2
     DEF Becomes, Alone, Sound, HistoryIsKept, Own, RowsAreOwn, RefusedForGap,
         BucketIsOwn, InOrder, Past, ChargedWhenPast, Early

LEMMA ArriveKeeps ==
  ASSUME TypeOK, NEW q \in Requests, NEW kind \in Kinds,
         NEW bearer \in Keys \cup {"none"}, Sound(q), Arrive(q, kind, bearer),
         keys \subseteq issued
  PROVE  Sound(q)'
<1>1. /\ live'[q] = keys /\ gap'[q] = Keys \ KeysIn(keys)
      /\ keys' = keys /\ issued' = issued
  BY ArriveEffect DEF TypeOK
<1>2. /\ req'[q].cached = {} /\ req'[q].principal = {} /\ req'[q].bucket = "none"
      /\ req'[q].code = 0 /\ req'[q].kind = kind
      /\ req'[q].pc = IF Group(kind) \in Unlimited THEN "routing" ELSE "sizing"
  BY ArriveEffect DEF Sound, InOrder, Early
<1>3. "none" \notin Keys  BY ConstantsAssumption
<1>4. HistoryIsKept(q)'  BY <1>1 DEF HistoryIsKept
<1> QED
  BY <1>2, <1>3, <1>4
     DEF Sound, Own, RowsAreOwn, RefusedForGap, BucketIsOwn, InOrder, Past,
         ChargedWhenPast, Early

-----------------------------------------------------------------------------
(* The rows of api_keys, and what operators were told of them.             *)

\* One row for a key, of a project that exists.
OneRowPerKey ==
  /\ keys \subseteq issued
  /\ issued \subseteq [key : Keys, project : projects, scopes : Scopes]
  /\ \A row, other \in issued : row.key = other.key => row = other

\* No row gives the grant, and none will: the key was issued, and is not again.
Away(g) == g.key \in KeysIn(issued) /\ \A row \in keys : GrantOf(row) # g

\* What was reported as gone is gone.
GoneIsGone == \A g \in gone : Away(g)

\* What an open command is about to report.
ReportIsTrue(a) ==
  /\ revoking[a] # {} => admin[a].pc = "done"
  /\ \A g \in Told(a) : Away(g)

\* Whatever a request meets was not reported as gone before it began.
BarredStaysOut(q) ==
  /\ barred[q] \subseteq gone
  /\ \A row \in live[q] : GrantOf(row) \notin barred[q]

Inv ==
  /\ Types
  /\ OneRowPerKey
  /\ GoneIsGone
  /\ \A a \in Admins : ReportIsTrue(a)
  /\ \A q \in Requests : Sound(q) /\ BarredStaysOut(q)

LEMMA InvAtFirst == CliInit => Inv
<1> SUFFICES ASSUME CliInit PROVE Inv  OBVIOUS
<1>1. Types  BY TypesAtFirst
<1>2. OneRowPerKey /\ GoneIsGone
  BY DEF CliInit, Init, OneRowPerKey, GoneIsGone
<1>3. \A a \in Admins : ReportIsTrue(a)
  BY DEF CliInit, Init, ReportIsTrue, Told
<1>4. ASSUME NEW q \in Requests PROVE Sound(q) /\ BarredStaysOut(q)
  BY ConstantsAssumption
     DEF CliInit, Init, Sound, HistoryIsKept, Own, RowsAreOwn, RefusedForGap,
         BucketIsOwn, InOrder, Past, ChargedWhenPast, Early,
         BarredStaysOut
<1> QED  BY <1>1, <1>2, <1>3, <1>4 DEF Inv

\* An admin request either leaves the keys alone, adds one, or takes some away.
Leaves == projects \subseteq projects' /\ UNCHANGED <<keys, issued, live, gap>>

Adds(row) ==
  /\ row \in [key : Keys, project : projects, scopes : Scopes]
  /\ row.key \notin KeysIn(issued)
  /\ keys' = keys \cup {row} /\ issued' = issued \cup {row}
  /\ live' = [q \in Requests |-> live[q] \cup {row}]
  /\ UNCHANGED <<projects, gap>>

Takes(rows) ==
  /\ keys' = keys \ rows
  /\ gap' = [q \in Requests |-> gap[q] \cup KeysIn(rows)]
  /\ UNCHANGED <<projects, issued, live>>

AdminEffect ==
  /\ req' = req
  /\ \/ Leaves \/ (\E row \in KeyRow : Adds(row)) \/ (\E rows \in SUBSET keys : Takes(rows))

\* Only a request that is not done takes a step, and its own.
Acts(a) ==
  /\ admin[a].pc \in {"idle", "checked"}
  /\ \A b \in Admins \ {a} : admin'[b] = admin[b]

LEMMA AdminEffects ==
  ASSUME Types, NEW a \in Admins, Handles(a)
  PROVE  AdminEffect /\ Acts(a)
<1>0. admin \in [Admins -> AdminType]  BY DEF Types, TypeOK, AdminType
<1>a. ASSUME NEW code, AdminDone(a, code)
      PROVE  \A b \in Admins \ {a} : admin'[b] = admin[b]
  BY <1>0, <1>a DEF AdminDone
<1>1. CASE AdminFails(a)
  <2>1. Acts(a)  BY <1>1, <1>a DEF AdminFails, Acts
  <2> QED  BY <1>1, <2>1 DEF AdminFails, AdminEffect, Leaves, histories
<1>2. ASSUME NEW p \in Projects, CreateProject(a, p) PROVE AdminEffect /\ Acts(a)
  <2>1. Acts(a)  BY <1>2, <1>a DEF CreateProject, Acts
  <2> QED  BY <1>2, <2>1 DEF CreateProject, AdminEffect, Leaves, histories
<1>3. ASSUME NEW p \in Projects, NEW s \in Scopes, CheckProject(a, p, s)
      PROVE  AdminEffect /\ Acts(a)
  <2>1. CASE p \in projects
    <3>1. Acts(a)  BY <1>0, <1>3, <2>1 DEF CheckProject, Acts
    <3> QED  BY <1>3, <3>1 DEF CheckProject, AdminEffect, Leaves, histories
  <2>2. CASE p \notin projects
    <3>1. Acts(a)  BY <1>3, <1>a, <2>2 DEF CheckProject, Acts
    <3> QED  BY <1>3, <3>1 DEF CheckProject, AdminEffect, Leaves, histories
  <2> QED  BY <2>1, <2>2
<1>4. ASSUME NEW p \in Projects, NEW k \in Keys, Revoke(a, p, k)
      PROVE  AdminEffect /\ Acts(a)
  <2>1. Acts(a)  BY <1>4, <1>a DEF Revoke, Acts
  <2>2. PICK rows : rows = {row \in RowsOf(k) : row.project = p}  OBVIOUS
  <2>3. rows \in SUBSET keys  BY <2>2 DEF RowsOf
  <2>4. Takes(rows) /\ req' = req  BY <1>4, <2>2 DEF Revoke, Takes
  <2> QED  BY <2>1, <2>3, <2>4 DEF AdminEffect
<1>5. ASSUME NEW k \in Keys, CreateKey(a, k) PROVE AdminEffect /\ Acts(a)
  <2>1. Acts(a)  BY <1>5, <1>a DEF CreateKey, Acts
  <2>2. PICK p \in admin[a].project, s \in admin[a].scopes :
          \E row \in {[key |-> k, project |-> p, scopes |-> s]} :
            /\ keys' = keys \cup {row} /\ issued' = issued \cup {row}
            /\ live' = [q \in Requests |-> live[q] \cup {row}]
    BY <1>5 DEF CreateKey
  <2>3. PICK row \in {[key |-> k, project |-> p, scopes |-> s]} :
          /\ keys' = keys \cup {row} /\ issued' = issued \cup {row}
          /\ live' = [q \in Requests |-> live[q] \cup {row}]
    BY <2>2
  <2>4. p \in projects /\ projects \subseteq Projects /\ s \in Scopes
    BY <1>0, <1>5 DEF CreateKey, Types, ChecksHold, AdminType, TypeOK
  <2>5. row \in KeyRow /\ row \in [key : Keys, project : projects, scopes : Scopes]
    BY <2>3, <2>4 DEF KeyRow
  <2>6. row.key \notin KeysIn(issued)  BY <1>5, <2>3 DEF CreateKey
  <2>7. Adds(row) /\ req' = req
    BY <1>5, <2>3, <2>5, <2>6 DEF CreateKey, Adds
  <2> QED  BY <2>1, <2>5, <2>7 DEF AdminEffect
<1> QED  BY <1>1, <1>2, <1>3, <1>4, <1>5 DEF Handles

\* A request under way while an admin request is handled.
LEMMA AdminKeepsRequests ==
  ASSUME Types, OneRowPerKey, GoneIsGone, AdminEffect, NEW q \in Requests,
         Sound(q), BarredStaysOut(q), UNCHANGED barred, gone' = gone
  PROVE  Sound(q)' /\ BarredStaysOut(q)'
<1>0. req' = req /\ live \in [Requests -> SUBSET KeyRow]
      /\ gap \in [Requests -> SUBSET Keys]
  BY DEF AdminEffect, Types, TypeOK
<1>1. CASE Leaves
  BY <1>0, <1>1
     DEF Leaves, Sound, HistoryIsKept, Own, RowsAreOwn, RefusedForGap,
         BucketIsOwn, InOrder, Past, ChargedWhenPast, BarredStaysOut
<1>2. ASSUME NEW row \in KeyRow, Adds(row) PROVE Sound(q)' /\ BarredStaysOut(q)'
  <2>1. /\ live'[q] = live[q] \cup {row} /\ gap'[q] = gap[q]
        /\ keys' = keys \cup {row} /\ issued' = issued \cup {row}
    BY <1>0, <1>2 DEF Adds
  <2>2. KeysIn(keys) \subseteq KeysIn(keys') /\ KeysIn(live[q]) \subseteq KeysIn(live'[q])
    BY <2>1 DEF KeysIn
  <2>3. HistoryIsKept(q)'
    BY <1>0, <2>1, <2>2 DEF HistoryIsKept, Sound
  <2>4. Own(q) \subseteq Own(q)'  BY <1>0, <2>1 DEF Own
  <2>5. RowsAreOwn(q)' /\ RefusedForGap(q)' /\ BucketIsOwn(q)'
    BY <1>0, <2>1, <2>2, <2>4 DEF Sound, RowsAreOwn, RefusedForGap, BucketIsOwn
  <2>6. InOrder(q)' /\ ChargedWhenPast(q)'
    BY <1>0 DEF Sound, InOrder, Past, ChargedWhenPast
  <2>7. GrantOf(row) \notin barred[q]
    BY <1>2 DEF Adds, GoneIsGone, BarredStaysOut, Away, GrantOf
  <2>8. BarredStaysOut(q)'
    BY <2>1, <2>7 DEF BarredStaysOut
  <2> QED  BY <2>3, <2>5, <2>6, <2>8 DEF Sound
<1>3. ASSUME NEW rows \in SUBSET keys, Takes(rows)
      PROVE  Sound(q)' /\ BarredStaysOut(q)'
  <2>1. /\ live'[q] = live[q] /\ gap'[q] = gap[q] \cup KeysIn(rows)
        /\ keys' = keys \ rows /\ issued' = issued
    BY <1>0, <1>3 DEF Takes
  <2>2. KeysIn(keys) \subseteq KeysIn(keys') \cup KeysIn(rows)
    BY <2>1 DEF KeysIn
  <2>3. HistoryIsKept(q)'
    BY <1>0, <2>1, <2>2 DEF HistoryIsKept, Sound
  <2>4. RowsAreOwn(q)' /\ RefusedForGap(q)' /\ BucketIsOwn(q)'
    BY <1>0, <2>1 DEF Sound, Own, RowsAreOwn, RefusedForGap, BucketIsOwn
  <2>5. InOrder(q)' /\ ChargedWhenPast(q)'
    BY <1>0 DEF Sound, InOrder, Past, ChargedWhenPast
  <2>6. BarredStaysOut(q)'
    BY <2>1 DEF BarredStaysOut
  <2> QED  BY <2>3, <2>4, <2>5, <2>6 DEF Sound
<1> QED  BY <1>1, <1>2, <1>3 DEF AdminEffect

\* The rows and the reports, but for the one of the command the step is about.
LEMMA AdminKeepsRows ==
  ASSUME Types, OneRowPerKey, AdminEffect
  PROVE  OneRowPerKey' /\ \A g : Away(g) => Away(g)'
<1>1. CASE Leaves
  BY <1>1 DEF Leaves, OneRowPerKey, Away
<1>2. ASSUME NEW row \in KeyRow, Adds(row)
      PROVE  OneRowPerKey' /\ \A g : Away(g) => Away(g)'
  <2>1. /\ keys' = keys \cup {row} /\ issued' = issued \cup {row}
        /\ projects' = projects /\ row.key \notin KeysIn(issued)
        /\ row \in [key : Keys, project : projects, scopes : Scopes]
    BY <1>2 DEF Adds
  <2>2. \A other \in issued : other.key # row.key  BY <2>1 DEF KeysIn
  <2>3. OneRowPerKey'  BY <2>1, <2>2 DEF OneRowPerKey
  <2>4. ASSUME NEW g, Away(g) PROVE Away(g)'
    <3>1. g.key \in KeysIn(issued') /\ GrantOf(row) # g
      BY <2>1, <2>4 DEF Away, KeysIn, GrantOf
    <3> QED  BY <2>1, <2>4, <3>1 DEF Away
  <2> QED  BY <2>3, <2>4
<1>3. ASSUME NEW rows \in SUBSET keys, Takes(rows)
      PROVE  OneRowPerKey' /\ \A g : Away(g) => Away(g)'
  <2>1. keys' \subseteq keys /\ issued' = issued /\ projects' = projects
    BY <1>3 DEF Takes
  <2> QED  BY <2>1 DEF OneRowPerKey, Away
<1> QED  BY <1>1, <1>2, <1>3 DEF AdminEffect

LEMMA ChecksKept ==
  ASSUME Types, NEW a \in Admins, Handles(a) PROVE ChecksHold'
<1>0. admin \in [Admins -> AdminType]  BY DEF Types, TypeOK, AdminType
<1>1. projects \subseteq projects'
  BY AdminEffects DEF AdminEffect, Leaves, Adds, Takes
<1>2. \A b \in Admins \ {a} : admin'[b] = admin[b]  BY AdminEffects DEF Acts
<1>3. ASSUME NEW code, AdminDone(a, code) PROVE admin'[a].pc = "done"
  BY <1>0, <1>3 DEF AdminDone, AdminType
<1>4. ASSUME NEW p \in Projects, NEW s \in Scopes, CheckProject(a, p, s)
      PROVE  admin'[a].pc = "checked" => admin'[a].project \subseteq projects
  <2>1. CASE p \in projects
    BY <1>0, <1>4, <2>1 DEF CheckProject, AdminType
  <2>2. CASE p \notin projects
    BY <1>3, <1>4, <2>2 DEF CheckProject
  <2> QED  BY <2>1, <2>2
<1>5. \/ admin'[a].pc = "done"
      \/ admin'[a].pc = "checked" => admin'[a].project \subseteq projects
  BY <1>3, <1>4 DEF Handles, AdminFails, CreateProject, Revoke, CreateKey
<1> QED  BY <1>1, <1>2, <1>5 DEF ChecksHold, Types

\* A command's request is handled, with a report that is true.
LEMMA CommandKeeps ==
  ASSUME Inv, NEW a \in Admins, Handles(a), UNCHANGED <<cli, gone, barred>>,
         revoking' \in [Admins -> SUBSET Grant],
         \A b \in Admins \ {a} : revoking'[b] = revoking[b],
         ReportIsTrue(a)'
  PROVE  Inv'
<1>1. Types'
  BY AdminTypes, ChecksKept DEF Inv, Types, CliTypeOK
<1>2. AdminEffect /\ Acts(a)  BY AdminEffects DEF Inv
<1>3. /\ OneRowPerKey' /\ GoneIsGone'
      /\ \A g : Away(g) => Away(g)'
  BY <1>2, AdminKeepsRows DEF Inv, GoneIsGone
<1>4. \A q \in Requests : Sound(q)' /\ BarredStaysOut(q)'
  BY <1>2, AdminKeepsRequests DEF Inv
<1>5. ASSUME NEW b \in Admins PROVE ReportIsTrue(b)'
  <2>1. CASE b = a  BY <2>1
  <2>2. CASE b # a
    <3>1. revoking'[b] = revoking[b] /\ admin'[b] = admin[b]
      BY <1>2, <2>2 DEF Acts
    <3>2. Told(b)' = Told(b)  BY <3>1 DEF Told, KeyGone
    <3> QED  BY <1>3, <3>1, <3>2 DEF Inv, ReportIsTrue
  <2> QED  BY <2>1, <2>2
<1> QED  BY <1>1, <1>3, <1>4, <1>5 DEF Inv

LEMMA CreateAndContinueKeep ==
  ASSUME Inv, NEW a \in Admins, Handles(a), UNCHANGED client PROVE Inv'
<1>1. admin[a].pc \in {"idle", "checked"}  BY AdminEffects DEF Inv, Acts
<1>2. revoking'[a] = {}  BY <1>1 DEF Inv, ReportIsTrue, client
<1>3. ReportIsTrue(a)'  BY <1>2 DEF ReportIsTrue, Told, KeyGone
<1> QED  BY <1>3, CommandKeeps DEF Inv, Types, CliTypeOK, client

LEMMA KeyRevokeKeeps ==
  ASSUME Inv, NEW a \in Admins, NEW p \in Projects, NEW k \in Keys,
         KeyRevoke(a, p, k)
  PROVE  Inv'
<1>0. admin \in [Admins -> AdminType] /\ revoking \in [Admins -> SUBSET Grant]
      /\ issued \subseteq KeyRow
  BY DEF Inv, Types, TypeOK, CliTypeOK, AdminType
<1>1. PICK asked \in SUBSET {[key |-> k, project |-> p]} :
             revoking' = [revoking EXCEPT ![a] = asked]
  BY DEF KeyRevoke
<1>2. UNCHANGED <<cli, gone, barred>> /\ k \in KeysIn(issued)
  BY DEF KeyRevoke
<1>3. /\ revoking'[a] = asked /\ revoking' \in [Admins -> SUBSET Grant]
      /\ \A b \in Admins \ {a} : revoking'[b] = revoking[b]
  BY <1>0, <1>1 DEF Grant
<1>4. ASSUME NEW code, AdminDone(a, code)
      PROVE  admin'[a].pc = "done" /\ admin'[a].code = code
  BY <1>0, <1>4 DEF AdminDone, AdminType
<1>5. CASE AdminFails(a)
  <2>1. admin'[a].pc = "done" /\ admin'[a].code \in {401, 500}
    BY <1>4, <1>5 DEF AdminFails
  <2>2. ReportIsTrue(a)'  BY <2>1 DEF ReportIsTrue, Told
  <2> QED  BY <1>2, <1>3, <1>5, <2>2, CommandKeeps DEF Handles
<1>6. CASE Revoke(a, p, k)
  <2>1. PICK rows : rows = {row \in RowsOf(k) : row.project = p}  OBVIOUS
  <2>2. /\ keys' = keys \ rows /\ issued' = issued
        /\ \E code \in {IF rows # {} THEN 204 ELSE 404, 500} : AdminDone(a, code)
    BY <1>6, <2>1 DEF Revoke
  <2>3. /\ admin'[a].pc = "done"
        /\ admin'[a].code \in {IF rows # {} THEN 204 ELSE 404, 500}
    BY <1>4, <2>2
  \* 204: the row was the key's only one.
  <2>4. ASSUME NEW g \in KeyGone(a)', rows # {} PROVE Away(g)'
    <3>1. g.key = k  BY <1>3, <2>4 DEF KeyGone
    <3>2. PICK row \in rows : TRUE  BY <2>4
    <3>3. ASSUME NEW other \in keys', other.key = k PROVE FALSE
      <4>1. other \in issued /\ row \in issued /\ row.key = other.key
            /\ other \notin rows
        BY <2>1, <2>2, <3>2, <3>3 DEF Inv, OneRowPerKey, RowsOf
      <4> QED  BY <3>2, <4>1 DEF Inv, OneRowPerKey
    <3> QED  BY <1>2, <2>2, <3>1, <3>3 DEF Away, GrantOf
  \* 404: the project has no such row.
  <2>5. ASSUME NEW g \in revoking'[a], rows = {} PROVE Away(g)'
    <3>1. g.key = k /\ g.project = p  BY <1>3, <2>5
    <3>2. ASSUME NEW other \in keys', GrantOf(other) = g PROVE FALSE
      <4>1. other \in keys /\ other.key = k /\ other.project = p
        BY <2>2, <3>1, <3>2 DEF GrantOf
      <4> QED  BY <2>1, <2>5, <4>1 DEF RowsOf
    <3> QED  BY <1>2, <2>2, <3>1, <3>2 DEF Away
  <2>6. \A g \in Told(a)' : Away(g)'
    <3>1. CASE admin'[a].code = 204
      BY <2>3, <2>4, <3>1 DEF Told
    <3>2. CASE admin'[a].code = 404
      BY <2>3, <2>5, <3>2 DEF Told
    <3>3. CASE admin'[a].code = 500
      BY <3>3 DEF Told
    <3> QED  BY <2>3, <3>1, <3>2, <3>3
  <2>7. ReportIsTrue(a)'  BY <2>3, <2>6 DEF ReportIsTrue
  <2> QED  BY <1>2, <1>3, <1>6, <2>7, CommandKeeps DEF Handles
<1> QED  BY <1>5, <1>6 DEF KeyRevoke

\* A command ends, with or without an answer.
LEMMA EndKeeps ==
  ASSUME Inv, NEW a \in Admins, Show(a) \/ TimeOut(a) PROVE Inv'
<1>0. revoking \in [Admins -> SUBSET Grant] /\ gone \subseteq Grant
      /\ cli \in [Admins -> {"open", "ended"}]
  BY DEF Inv, Types, CliTypeOK
<1>1. /\ UNCHANGED vars /\ barred' = barred
      /\ revoking' = [revoking EXCEPT ![a] = {}]
      /\ cli' = [cli EXCEPT ![a] = "ended"]
      /\ gone' = gone \/ gone' = gone \cup Told(a)
  BY DEF Show, TimeOut
<1>2. gone \subseteq gone' /\ gone' \subseteq Grant
      /\ \A g \in gone' : Away(g)
  <2>1. Told(a) \subseteq Grant  BY <1>0 DEF Told, KeyGone
  <2> QED  BY <1>0, <1>1, <2>1 DEF Inv, GoneIsGone, ReportIsTrue
<1>3. TypeOK' /\ ChecksHold' /\ OneRowPerKey'
  BY <1>1 DEF Inv, Types, TypeOK, ChecksHold, OneRowPerKey, vars, histories
<1>4. CliTypeOK'  BY <1>0, <1>1, <1>2 DEF CliTypeOK, Inv, Types
<1>5. GoneIsGone'  BY <1>1, <1>2 DEF GoneIsGone, Away, vars, histories
<1>6. ASSUME NEW b \in Admins PROVE ReportIsTrue(b)'
  <2>1. UNCHANGED <<keys, issued, admin>>  BY <1>1 DEF vars, histories
  <2>2. CASE b = a
    BY <1>0, <1>1, <2>1, <2>2 DEF ReportIsTrue, Told, KeyGone
  <2>3. CASE b # a
    <3>1. revoking'[b] = revoking[b]  BY <1>0, <1>1, <2>3
    <3> QED  BY <2>1, <3>1 DEF Inv, ReportIsTrue, Told, KeyGone, Away
  <2> QED  BY <2>2, <2>3
<1>7. ASSUME NEW q \in Requests PROVE Sound(q)' /\ BarredStaysOut(q)'
  <2>1. Sound(q)'  BY <1>1, OtherStaysSound DEF Inv, vars, histories
  <2>2. BarredStaysOut(q)'
    BY <1>1, <1>2 DEF Inv, BarredStaysOut, vars, histories
  <2> QED  BY <2>1, <2>2
<1> QED  BY <1>3, <1>4, <1>5, <1>6, <1>7 DEF Inv, Types

LEMMA ComeKeeps ==
  ASSUME Inv, NEW q \in Requests, NEW kind \in Kinds,
         NEW bearer \in Keys \cup {"none"}, Come(q, kind, bearer)
  PROVE  Inv'
<1>0. /\ TypeOK /\ barred \in [Requests -> SUBSET Grant] /\ gone \subseteq Grant
      /\ live \in [Requests -> SUBSET KeyRow] /\ gap \in [Requests -> SUBSET Keys]
  BY DEF Inv, Types, CliTypeOK, TypeOK
<1>1. Arrive(q, kind, bearer) /\ barred' = [barred EXCEPT ![q] = gone]
      /\ UNCHANGED <<cli, revoking, gone>>
  BY DEF Come
<1>2. /\ UNCHANGED <<projects, keys, admin, issued>>
      /\ req' \in [Requests -> Request]
      /\ live' = [live EXCEPT ![q] = keys]
      /\ gap' = [gap EXCEPT ![q] = Keys \ KeysIn(keys)]
      /\ \A r \in Requests \ {q} : req'[r] = req[r]
  BY <1>0, <1>1, ArriveEffect
<1>3. keys \subseteq issued /\ keys \subseteq KeyRow
  BY <1>0 DEF Inv, OneRowPerKey, TypeOK
<1>4. TypeOK'  BY <1>0, <1>2, <1>3 DEF TypeOK
<1>5. CliTypeOK' /\ ChecksHold'
  BY <1>0, <1>1, <1>2 DEF Inv, Types, CliTypeOK, ChecksHold
<1>6. OneRowPerKey' /\ GoneIsGone' /\ \A a \in Admins : ReportIsTrue(a)'
  BY <1>1, <1>2 DEF Inv, OneRowPerKey, GoneIsGone, ReportIsTrue, Told, KeyGone, Away
<1>7. ASSUME NEW r \in Requests PROVE Sound(r)' /\ BarredStaysOut(r)'
  <2>1. CASE r = q
    <3>1. Sound(q)'  BY <1>0, <1>1, <1>3, ArriveKeeps DEF Inv
    <3>2. barred'[q] = gone /\ live'[q] = keys /\ gone' = gone
      BY <1>0, <1>1, <1>2
    <3>3. BarredStaysOut(q)'
      BY <3>2 DEF Inv, GoneIsGone, BarredStaysOut, Away
    <3> QED  BY <2>1, <3>1, <3>3
  <2>2. CASE r # q
    <3>1. live'[r] = live[r] /\ gap'[r] = gap[r] /\ barred'[r] = barred[r]
          /\ req'[r] = req[r]
      BY <1>0, <1>1, <1>2, <2>2
    <3>2. Sound(r)'  BY <1>2, <3>1, OtherStaysSound DEF Inv
    <3>3. BarredStaysOut(r)'  BY <1>1, <3>1 DEF Inv, BarredStaysOut
    <3> QED  BY <3>2, <3>3
  <2> QED  BY <2>1, <2>2
<1> QED  BY <1>4, <1>5, <1>6, <1>7 DEF Inv, Types

\* The other steps of a project request.
LEMMA RequestKeeps ==
  ASSUME Inv, NEW q \in Requests, UNCHANGED client,
         Size(q) \/ LookUp(q) \/ Charge(q) \/ Authenticate(q) \/ Authorize(q)
  PROVE  Inv'
<1>1. TypeOK /\ Sound(q)  BY DEF Inv, Types
<1>2. Sound(q)' /\ Alone(q)
  BY <1>1, SizeKeeps, LookUpKeeps, ChargeKeeps, AuthenticateKeeps, AuthorizeKeeps
<1>3. /\ UNCHANGED <<projects, keys, admin, issued, live, gap>>
      /\ req' \in [Requests -> Request]
      /\ \A r \in Requests \ {q} : req'[r] = req[r]
  BY <1>2 DEF Alone
<1>4. Types'
  BY <1>1, <1>3 DEF Inv, Types, TypeOK, CliTypeOK, ChecksHold, client
<1>5. OneRowPerKey' /\ GoneIsGone' /\ \A a \in Admins : ReportIsTrue(a)'
  BY <1>3 DEF Inv, OneRowPerKey, GoneIsGone, ReportIsTrue, Told, KeyGone, Away, client
<1>6. ASSUME NEW r \in Requests PROVE Sound(r)' /\ BarredStaysOut(r)'
  <2>1. Sound(r)'
    <3>1. CASE r = q  BY <1>2, <3>1
    <3>2. CASE r # q  BY <1>3, <3>2, OtherStaysSound DEF Inv
    <3> QED  BY <3>1, <3>2
  <2>2. BarredStaysOut(r)'  BY <1>3 DEF Inv, BarredStaysOut, client
  <2> QED  BY <2>1, <2>2
<1> QED  BY <1>4, <1>5, <1>6 DEF Inv

LEMMA InvKept == Inv /\ [CliNext]_cliVars => Inv'
<1> SUFFICES ASSUME Inv, [CliNext]_cliVars PROVE Inv'  OBVIOUS
<1>1. CASE UNCHANGED cliVars
  <2>1. UNCHANGED <<projects, keys, admin, req, issued, live, gap, cli, revoking,
                    gone, barred>>
    BY <1>1 DEF cliVars, vars, client
  <2>2. Types'  BY <2>1 DEF Inv, Types, TypeOK, CliTypeOK, ChecksHold
  <2>3. OneRowPerKey' /\ GoneIsGone' /\ \A a \in Admins : ReportIsTrue(a)'
    BY <2>1 DEF Inv, OneRowPerKey, GoneIsGone, ReportIsTrue, Told, KeyGone, Away
  <2>4. ASSUME NEW q \in Requests PROVE Sound(q)' /\ BarredStaysOut(q)'
    <3>1. Sound(q)'  BY <2>1, OtherStaysSound DEF Inv
    <3>2. BarredStaysOut(q)'  BY <2>1 DEF Inv, BarredStaysOut
    <3> QED  BY <3>1, <3>2
  <2> QED  BY <2>2, <2>3, <2>4 DEF Inv
<1>2. ASSUME NEW a \in Admins, Create(a) \/ Continue(a) PROVE Inv'
  <2>1. Handles(a) /\ UNCHANGED client
    BY <1>2 DEF Create, Continue, Handles
  <2> QED  BY <2>1, CreateAndContinueKeep
<1>3. ASSUME NEW a \in Admins, NEW p \in Projects, NEW k \in Keys,
             KeyRevoke(a, p, k)
      PROVE  Inv'
  BY <1>3, KeyRevokeKeeps
<1>4. ASSUME NEW a \in Admins, Show(a) \/ TimeOut(a) PROVE Inv'
  BY <1>4, EndKeeps
<1>5. ASSUME NEW q \in Requests, NEW kind \in Kinds, NEW b \in Keys \cup {"none"},
             Come(q, kind, b)
      PROVE  Inv'
  BY <1>5, ComeKeeps
<1>6. ASSUME NEW q \in Requests, UNCHANGED client,
             Size(q) \/ LookUp(q) \/ Charge(q) \/ Authenticate(q) \/ Authorize(q)
      PROVE  Inv'
  BY <1>6, RequestKeeps
<1> QED  BY <1>1, <1>2, <1>3, <1>4, <1>5, <1>6 DEF CliNext

LEMMA InvInvariant == CliSpec => []Inv
BY InvAtFirst, InvKept, PTL DEF CliSpec

-----------------------------------------------------------------------------
(* The theorems.                                                           *)

\* Every state is of its type: a key row's project exists, whoever creates
\* projects and keys (create_project_key).
THEOREM TypeCorrect == CliSpec => [](TypeOK /\ CliTypeOK)
<1>1. Inv => TypeOK /\ CliTypeOK  BY DEF Inv, Types
<1> QED  BY <1>1, InvInvariant, PTL

\* A key reported as revoked lets nobody in who comes after that, and one that
\* is reported as unknown to a project nobody for that project (key_revoke,
\* revoke_api_key, the row the middleware keeps).
THEOREM RevokedKeysStayOut == CliSpec => []RevokedStaysOut
<1>1. Inv => RevokedStaysOut
  BY DEF Inv, Sound, RowsAreOwn, Own, BarredStaysOut, RevokedStaysOut
<1> QED  BY <1>1, InvInvariant, PTL

\* A principal's key was in force during the request
\* (require_project_principal, _get_key).
THEOREM PrincipalsWereInForce == CliSpec => []PrincipalWasInForce
<1>1. Inv => PrincipalWasInForce
  BY DEF Inv, Sound, RowsAreOwn, Own, PrincipalWasInForce
<1> QED  BY <1>1, InvInvariant, PTL

\* A key in force all through the request is not answered 401
\* (require_project_principal).
THEOREM ValidKeysAreNotRefused == CliSpec => []RefusedOnlyWithoutKey
<1>1. Inv => RefusedOnlyWithoutKey
  BY DEF Inv, Sound, RefusedForGap, RefusedOnlyWithoutKey
<1> QED  BY <1>1, InvInvariant, PTL

\* A key's bucket is charged by its holders only (_get_key).
THEOREM BucketsBelongToKeys == CliSpec => []KeyBucketsAreTheirs
<1>1. Inv => KeyBucketsAreTheirs
  BY DEF Inv, Sound, BucketIsOwn, KeyBucketsAreTheirs
<1> QED  BY <1>1, InvInvariant, PTL

\* Nobody is let in uncharged where there is a limit (dispatch).
THEOREM NobodyPassesUncharged == CliSpec => []LetInIsCharged
<1>1. Inv => LetInIsCharged
  BY DEF Inv, Sound, ChargedWhenPast, Past, LetInIsCharged
<1> QED  BY <1>1, InvInvariant, PTL
=============================================================================

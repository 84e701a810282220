------------------------------ MODULE ApiAccess ------------------------------
(***************************************************************************)
(* Who gets in.  Admin requests create projects and create and revoke API  *)
(* keys (api/routes/admin.py, services/projects.py, services/api_keys.py,  *)
(* db.py).  A project's request passes RateLimitMiddleware                 *)
(* (api/middleware.py), which for the LLM endpoints looks its key up to    *)
(* choose the bucket to charge and leaves the row it found on the request; *)
(* then require_project_principal (api/deps.py), which looks the key up    *)
(* itself unless there is such a row; then the scope check of the service. *)
(*                                                                         *)
(* Each look-up, insert and delete is a transaction of its own, run in a   *)
(* thread: anything may happen in between.  What a bucket allows is the    *)
(* subject of RateLimit, what the handler does that of LlmRequest.         *)
(***************************************************************************)
EXTENDS FiniteSets

CONSTANTS
  Projects, \* project names; a name stands for its row and the row's id
  Existing, \* those created earlier
  Keys,     \* raw keys that may be generated; a key stands for its hash and id
  Scopes,   \* the sets of scopes keys are created with
  Admins,   \* the admin requests
  Requests, \* the project requests
  Unlimited \* the endpoint groups whose limit is 0

Kinds == {"chat", "responses", "models"}
Group(kind) == IF kind = "models" THEN "models" ELSE "llm"

ASSUME ConstantsAssumption ==
  /\ Existing \subseteq Projects
  /\ Scopes \subseteq SUBSET {"chat:write", "responses:write", "models:read"}
  /\ Unlimited \subseteq {"llm", "models"}
  /\ "ip" \notin Keys /\ "none" \notin Keys

VARIABLES
  projects, \* the rows of projects
  keys,     \* the rows of api_keys
  admin,    \* where each admin request is, and what it is about
  req,      \* where each project request is, and what it carries
  issued,   \* history: every row api_keys ever had
  live,     \* history: rows api_keys had at some time since a request began
  gap       \* history: keys it lacked at some time since a request began

vars == <<projects, keys, admin, req, issued, live, gap>>
histories == <<issued, live, gap>>

\* A row of api_keys.
KeyRow == [key : Keys, project : Projects, scopes : Scopes]

\* 0: not answered.  For a project request 200 stands for being let in.
AdminCode == {0, 200, 204, 401, 404, 409, 500}
Code == {0, 200, 400, 401, 403, 413, 429, 500, 503}

RequestPc == {"idle", "sizing", "lookup", "charging", "routing", "authorized",
              "done"}
Request ==
  [pc : RequestPc, kind : Kinds, bearer : Keys \cup {"none"},
   cached : SUBSET KeyRow, \* request.state.authenticated_api_key
   bucket : Keys \cup {"none", "ip"}, \* the bucket charged
   principal : SUBSET KeyRow, code : Code]

TypeOK ==
  /\ projects \subseteq Projects
  /\ keys \subseteq [key : Keys, project : projects, scopes : Scopes]
  /\ admin \in [Admins -> [pc : {"idle", "checked", "done"},
                           project : SUBSET Projects, scopes : SUBSET Scopes,
                           code : AdminCode]]
  /\ req \in [Requests -> Request]
  /\ issued \subseteq KeyRow
  /\ live \in [Requests -> SUBSET KeyRow]
  /\ gap \in [Requests -> SUBSET Keys]

Init ==
  /\ projects = Existing
  /\ keys = {}
  /\ admin = [a \in Admins |-> [pc |-> "idle", project |-> {}, scopes |-> {},
                                code |-> 0]]
  /\ req = [q \in Requests |->
              [pc |-> "idle", kind |-> "chat", bearer |-> "none",
               cached |-> {}, bucket |-> "none", principal |-> {}, code |-> 0]]
  /\ issued = {}
  /\ live = [q \in Requests |-> {}]
  /\ gap = [q \in Requests |-> {}]

RowsOf(k) == {row \in keys : row.key = k}
KeysIn(rows) == {row.key : row \in rows}

-----------------------------------------------------------------------------
(* Admin requests.                                                         *)

AdminDone(a, code) ==
  admin' = [admin EXCEPT ![a].pc = "done", ![a].code = code]

\* require_admin refuses the token, or a transaction fails.
AdminFails(a) ==
  /\ \/ admin[a].pc = "idle" /\ AdminDone(a, 401)
     \/ admin[a].pc \in {"idle", "checked"} /\ AdminDone(a, 500)
  /\ UNCHANGED <<projects, keys, req, histories>>

\* create_project: names are unique.
CreateProject(a, p) ==
  /\ admin[a].pc = "idle"
  /\ projects' = projects \cup {p}
  /\ AdminDone(a, IF p \in projects THEN 409 ELSE 200)
  /\ UNCHANGED <<keys, req, histories>>

\* create_project_key, first transaction: get_project.
CheckProject(a, p, s) ==
  /\ admin[a].pc = "idle"
  /\ IF p \in projects
       THEN admin' = [admin EXCEPT ![a].pc = "checked", ![a].project = {p},
                                   ![a].scopes = {s}]
       ELSE AdminDone(a, 404)
  /\ UNCHANGED <<projects, keys, req, histories>>

\* create_project_key, second transaction: a row with a fresh key.  The answer
\* may be an error although the row was committed.
CreateKey(a, k) ==
  /\ admin[a].pc = "checked"
  /\ k \notin KeysIn(issued)
  /\ \E p \in admin[a].project, s \in admin[a].scopes :
       LET row == [key |-> k, project |-> p, scopes |-> s]
       IN /\ keys' = keys \cup {row}
          /\ issued' = issued \cup {row}
          /\ live' = [q \in Requests |-> live[q] \cup {row}]
  /\ \E code \in {200, 500} : AdminDone(a, code)
  /\ UNCHANGED <<projects, req, gap>>

\* revoke_api_key: a DELETE by key and project.
Revoke(a, p, k) ==
  LET rows == {row \in RowsOf(k) : row.project = p}
  IN /\ admin[a].pc = "idle"
     /\ keys' = keys \ rows
     /\ gap' = [q \in Requests |-> gap[q] \cup KeysIn(rows)]
     /\ \E code \in {IF rows # {} THEN 204 ELSE 404, 500} : AdminDone(a, code)
     /\ UNCHANGED <<projects, req, issued, live>>

-----------------------------------------------------------------------------
(* Project requests: the middleware.                                       *)

Go(q, to) == req' = [req EXCEPT ![q].pc = to]
Answer(q, code) == req' = [req EXCEPT ![q].pc = "done", ![q].code = code]

\* A request comes, with or without a bearer token.  Where the limit is 0 the
\* middleware passes it on at once.
Arrive(q, kind, bearer) ==
  /\ req[q].pc = "idle"
  /\ req' = [req EXCEPT ![q].kind = kind, ![q].bearer = bearer,
                        ![q].pc = IF Group(kind) \in Unlimited THEN "routing"
                                                               ELSE "sizing"]
  /\ live' = [live EXCEPT ![q] = keys]
  /\ gap' = [gap EXCEPT ![q] = Keys \ KeysIn(keys)]
  /\ UNCHANGED <<projects, keys, admin, issued>>

\* Content-Length and the body are checked.
Size(q) ==
  /\ req[q].pc = "sizing"
  /\ \/ \E code \in {400, 413} : Answer(q, code)
     \/ Go(q, IF Group(req[q].kind) = "llm" /\ req[q].bearer # "none"
                THEN "lookup" ELSE "charging")
  /\ UNCHANGED <<projects, keys, admin, histories>>

\* _get_key for an LLM request with a token.  A look-up that finds nothing or
\* raises is passed over.
LookUp(q) ==
  /\ req[q].pc = "lookup"
  /\ \E found \in {RowsOf(req[q].bearer), {}} :
       req' = [req EXCEPT ![q].pc = "charging", ![q].cached = found]
  /\ UNCHANGED <<projects, keys, admin, histories>>

\* Mutants: the raw token names the bucket; every bucket is the client's.
BucketOfToken(q) == IF req[q].bearer # "none" THEN req[q].bearer ELSE "ip"
BucketOfClient(q) == "ip"

\* The bucket's name: the key found, or the client's address.
Bucket(q) == IF req[q].cached # {} THEN req[q].bearer ELSE "ip"

\* consume_rate_limit: allowed, refused, or it fails.
Charge(q) ==
  /\ req[q].pc = "charging"
  /\ \/ req' = [req EXCEPT ![q].bucket = Bucket(q), ![q].pc = "routing"]
     \/ \E code \in {429, 503} :
          req' = [req EXCEPT ![q].bucket = Bucket(q), ![q].pc = "done",
                             ![q].code = code]
  /\ UNCHANGED <<projects, keys, admin, histories>>

-----------------------------------------------------------------------------
(* Project requests: the route.                                            *)

\* Mutant: keys once looked up are remembered beyond the request.
KnownForever(q) == {row \in issued : row.key = req[q].bearer}
\* Mutant: only the middleware looks keys up.
KnownFromMiddleware(q) == req[q].cached
\* The row left by the middleware, or else looked up now.
Known(q) == IF req[q].cached # {} THEN req[q].cached ELSE RowsOf(req[q].bearer)

\* require_project_principal.
Authenticate(q) ==
  /\ req[q].pc = "routing"
  /\ \/ /\ Known(q) # {}
        /\ req' = [req EXCEPT ![q].pc = "authorized", ![q].principal = Known(q)]
     \/ Known(q) = {} /\ Answer(q, 401)
     \/ req[q].cached = {} /\ req[q].bearer # "none" /\ Answer(q, 500)
  /\ UNCHANGED <<projects, keys, admin, histories>>

May(kind, scopes) ==
  CASE kind = "chat" -> "chat:write" \in scopes
    [] kind = "responses" -> {"responses:write", "chat:write"} \cap scopes # {}
    [] kind = "models" -> "models:read" \in scopes

\* The scope check of complete, respond or list_models.
Authorize(q) ==
  /\ req[q].pc = "authorized"
  /\ \E row \in req[q].principal :
       Answer(q, IF May(req[q].kind, row.scopes) THEN 200 ELSE 403)
  /\ UNCHANGED <<projects, keys, admin, histories>>

Next ==
  \/ \E a \in Admins :
       \/ AdminFails(a)
       \/ \E p \in Projects :
            \/ CreateProject(a, p)
            \/ \E s \in Scopes : CheckProject(a, p, s)
            \/ \E k \in Keys : Revoke(a, p, k)
       \/ \E k \in Keys : CreateKey(a, k)
  \/ \E q \in Requests :
       \/ \E kind \in Kinds, b \in Keys \cup {"none"} : Arrive(q, kind, b)
       \/ Size(q) \/ LookUp(q) \/ Charge(q) \/ Authenticate(q) \/ Authorize(q)

Spec == Init /\ [][Next]_vars

-----------------------------------------------------------------------------
(* Properties.                                                             *)

\* Who is taken for a key's holder presented that key, and it was in force at
\* some instant of the very request: a revocation that came before the request
\* began is honoured, by the row kept on the request too.
PrincipalWasInForce ==
  \A q \in Requests :
    req[q].principal \subseteq {row \in live[q] : row.key = req[q].bearer}

\* Who is turned away with 401 did not present a key that was in force all
\* through the request: a failed or early look-up in the middleware does not
\* lock a valid key out.
RefusedOnlyWithoutKey ==
  \A q \in Requests : req[q].code = 401 =>
    req[q].bearer = "none" \/ req[q].bearer \in gap[q]

\* A bucket of a key is charged only by requests that presented the key while
\* it was in force, so nobody else uses its allowance up, and tokens that were
\* never issued share the client's bucket (_get_key).
KeyBucketsAreTheirs ==
  \A q \in Requests : req[q].bucket \in Keys =>
    /\ req[q].bucket = req[q].bearer
    /\ req[q].bucket \in KeysIn(live[q])

\* A request let in under a limit has been charged, and an LLM request whose
\* key the middleware found is charged to that key.
LetInIsCharged ==
  \A q \in Requests : req[q].code = 200 =>
    /\ Group(req[q].kind) \in Unlimited <=> req[q].bucket = "none"
    /\ req[q].cached # {} => req[q].bucket = req[q].bearer
=============================================================================

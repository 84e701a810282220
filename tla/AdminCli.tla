------------------------------ MODULE AdminCli ------------------------------
(***************************************************************************)
(* The operator's side of ApiAccess: the llmcc command line (cli.py)       *)
(* creates projects and keys and revokes keys over HTTP, one admin request *)
(* a command.  A request or its answer may be lost or late: httpx gives up *)
(* after ten seconds and the command ends with an error, while the gateway *)
(* may still handle the request, or has done so.  Nothing is retried; an   *)
(* operator runs the command again.                                        *)
(*                                                                         *)
(* What a command asks for matters once the gateway handles it, and is     *)
(* chosen then; one whose request is lost is never handled.  Commands that *)
(* only list or show change nothing and are left out.                      *)
(***************************************************************************)
EXTENDS ApiAccess

VARIABLES
  cli,      \* whether each command is open, or has ended: printed or failed
  revoking, \* the grant whose revocation an open command will report
  gone,     \* history: the grants operators were told are gone
  barred    \* history: those of them when a project request began

client == <<cli, revoking, gone, barred>>
cliVars == <<vars, client>>

\* A grant: a key, acting for a project.  Revocations name both.
Grant == [key : Keys, project : Projects]
GrantOf(row) == [key |-> row.key, project |-> row.project]

CliInit ==
  /\ Init
  /\ cli = [a \in Admins |-> "open"]
  /\ revoking = [a \in Admins |-> {}]
  /\ gone = {}
  /\ barred = [q \in Requests |-> {}]

-----------------------------------------------------------------------------
\* `project create`, `key create`: their requests are handled, be it after the
\* command has given up.
Create(a) ==
  /\ \E p \in Projects : \/ CreateProject(a, p)
                         \/ \E s \in Scopes : CheckProject(a, p, s)
  /\ UNCHANGED client

\* The rest of a request, or its failure.
Continue(a) ==
  /\ AdminFails(a) \/ \E k \in Keys : CreateKey(a, k)
  /\ UNCHANGED client

\* `key revoke`, of a key whose id is known: from `key list`, or from the card
\* `key create` prints.  The project is whatever the operator types.
KeyRevoke(a, p, k) ==
  /\ k \in KeysIn(issued)
  /\ admin[a].pc = "idle"
  /\ Revoke(a, p, k) \/ AdminFails(a)
  /\ revoking' = [revoking EXCEPT ![a] =
                    IF cli[a] = "open" THEN {[key |-> k, project |-> p]} ELSE {}]
  /\ UNCHANGED <<cli, gone, barred>>

\* The key is gone for whatever project.
KeyGone(a) == {g \in Grant : \E asked \in revoking[a] : g.key = asked.key}

\* What an answer to a revocation tells the operator: 204 that the key is
\* revoked, 404 that the project named has no such key.  The message of a 404
\* ("API key not found") leaves the project out: the key may well be in force
\* for another one, and stays so.
ToldAlways(a) == KeyGone(a) \* mutant: every answer is reported as success
Told(a) ==
  CASE admin[a].code = 204 -> KeyGone(a)
    [] admin[a].code = 404 -> revoking[a]
    [] OTHER               -> {}

\* The answer arrives: it is printed, or _handle_error prints it and exits.
Show(a) ==
  /\ cli[a] = "open" /\ admin[a].pc = "done"
  /\ cli' = [cli EXCEPT ![a] = "ended"]
  /\ gone' = gone \cup Told(a)
  /\ revoking' = [revoking EXCEPT ![a] = {}]
  /\ UNCHANGED <<vars, barred>>

\* No answer: the request or the answer is lost, or comes too late.
TimeOut(a) ==
  /\ cli[a] = "open"
  /\ cli' = [cli EXCEPT ![a] = "ended"]
  /\ revoking' = [revoking EXCEPT ![a] = {}]
  /\ UNCHANGED <<vars, gone, barred>>

\* A project request begins.
Come(q, kind, bearer) ==
  /\ Arrive(q, kind, bearer)
  /\ barred' = [barred EXCEPT ![q] = gone]
  /\ UNCHANGED <<cli, revoking, gone>>

CliNext ==
  \/ \E a \in Admins :
       \/ Create(a) \/ Continue(a) \/ Show(a) \/ TimeOut(a)
       \/ \E p \in Projects, k \in Keys : KeyRevoke(a, p, k)
  \/ \E q \in Requests :
       \/ \E kind \in Kinds, b \in Keys \cup {"none"} : Come(q, kind, b)
       \/ /\ \/ Size(q) \/ LookUp(q) \/ Charge(q)
             \/ Authenticate(q) \/ Authorize(q)
          /\ UNCHANGED client

CliSpec == CliInit /\ [][CliNext]_cliVars

-----------------------------------------------------------------------------
(* Properties.                                                             *)

\* A key an operator was told is revoked (204) lets nobody in any more who comes
\* after that, for any project; one that a project was said not to have (404)
\* lets nobody in for that project, though perhaps for the one it belongs to.
\* This holds however commands overtake one another, time out and are run
\* again, and whatever the middleware looks up and keeps ("This action is
\* irreversible", key_revoke; revoke_project_api_key).
RevokedStaysOut ==
  \A q \in Requests : \A row \in req[q].principal : GrantOf(row) \notin barred[q]
=============================================================================

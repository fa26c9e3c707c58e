------------------------------- MODULE ApiKeys -------------------------------
(***************************************************************************)
(* One API key from its creation to its end: create_api_key,               *)
(* revoke_api_key and delete_api_key of apps/api_keys/services/keys.py,    *)
(* the admin site, which reads and writes whole rows, and the requests     *)
(* that use the key, through the gateway (verify_bearer_token,             *)
(* consume_rate_limit, _touch_key) and through the session of a user whose *)
(* default key it is (ui_chat_completions, bump_api_key_usage).            *)
(*                                                                         *)
(* The key is one public id: another key is another row, and shares        *)
(* nothing with it.  An action is one access to the database or redis with *)
(* the code up to the next.  Any access may fail.                          *)
(***************************************************************************)
EXTENDS RateLimiter

CONSTANTS
  Creators,     \* calls of create_api_key that draw this public id
  Forms,        \* visits to the admin site
  Operators,    \* calls of revoke_api_key and delete_api_key
  Limits,       \* the rates a key may be given
  Expiry        \* the minute in which the key expires, if it does

ASSUME ApiKeysAssumption == Limits \subseteq Nat /\ Expiry \in Nat

VARIABLES
  row,          \* the key's row
  audit,        \* the audit log's entries about it
  creator,      \* what each creator does next
  form,         \* what each form has read, and does next
  operator,     \* what each operator has read, and does next
  caller,       \* each request
  gone,         \* the key has been revoked or deleted
  overwritten,  \* a form has been saved over that
  raced         \* a use was counted between a form's reading and its saving

actorVars == <<creator, form, operator, caller>>
historyVars == <<gone, overwritten, raced>>
vars == <<row, audit, actorVars, historyVars, limiterVars>>

-----------------------------------------------------------------------------

Rows == [there : BOOLEAN, revoked : BOOLEAN, rpm : Nat, uses : Nat]
NoRow == [there |-> FALSE, revoked |-> FALSE, rpm |-> 0, uses |-> 0]

CreatorSteps == {"idle", "insert", "done", "failed", "elsewhere"}
FormStates == [step : {"idle", "filled", "save", "done", "failed"},
               revoked : BOOLEAN, rpm : Nat, read : Rows]
OperatorStates == [step : {"idle", "revoke", "delete", "auditRevoked", "auditDeleted",
                           "done", "failed", "unaudited"}, read : Rows]
Callers == [step : {"idle", "denied", "verified", "listed", "checking", "served",
                    "rejected", "touched", "untouched"},
            path : Paths \cup {"none"}, rpm : Nat, after : BOOLEAN]

(* `after' if the key was gone when the request was verified.              *)
NoCaller == [step |-> "idle", path |-> "none", rpm |-> 0, after |-> FALSE]

Init ==
  /\ row = NoRow /\ audit = {}
  /\ creator = [c \in Creators |-> "idle"]
  /\ form = [f \in Forms |-> [step |-> "idle", revoked |-> FALSE, rpm |-> 0, read |-> NoRow]]
  /\ operator = [o \in Operators |-> [step |-> "idle", read |-> NoRow]]
  /\ caller = [r \in Requests |-> NoCaller]
  /\ gone = FALSE /\ overwritten = FALSE /\ raced = FALSE
  /\ InitLimiter

-----------------------------------------------------------------------------
(* create_api_key.  A public id that was taken is not drawn again.         *)

Draw(c) ==
  /\ creator[c] = "idle"
  /\ creator' = [creator EXCEPT ![c] = IF "created" \in audit THEN "elsewhere" ELSE "insert"]
  /\ UNCHANGED <<row, audit, form, operator, caller, historyVars, limiterVars>>

\* Faulty variant of Insert: the row is kept when the audit log fails.
InsertUnaudited(c) ==
  /\ creator[c] = "insert"
  /\ \/ /\ "created" \notin audit /\ ~row.there
        /\ \E rpm \in Limits : row' = [NoRow EXCEPT !.there = TRUE, !.rpm = rpm]
        /\ audit' \in {audit, audit \cup {"created"}}
        /\ creator' = [creator EXCEPT ![c] = "done"]
     \/ /\ creator' = [creator EXCEPT ![c] = "failed"]
        /\ UNCHANGED <<row, audit>>
  /\ UNCHANGED <<form, operator, caller, historyVars, limiterVars>>

(* The row and its audit entry in one transaction, which fails as a whole: *)
(* at the latest if another has taken the id meanwhile.                    *)
Insert(c) ==
  /\ creator[c] = "insert"
  /\ \/ /\ "created" \notin audit
        /\ \E rpm \in Limits : row' = [NoRow EXCEPT !.there = TRUE, !.rpm = rpm]
        /\ audit' = audit \cup {"created"}
        /\ creator' = [creator EXCEPT ![c] = "done"]
     \/ /\ creator' = [creator EXCEPT ![c] = "failed"]
        /\ UNCHANGED <<row, audit>>
  /\ UNCHANGED <<form, operator, caller, historyVars, limiterVars>>

-----------------------------------------------------------------------------
(* The admin site: APIKeyAdmin, in which revoked_at and rate_limit_rpm can *)
(* be edited and requests_count is read only.                              *)

OpenForm(f) ==
  /\ form[f].step = "idle" /\ row.there
  /\ form' = [form EXCEPT ![f].step = "filled", ![f].revoked = row.revoked, ![f].rpm = row.rpm]
  /\ UNCHANGED <<row, audit, creator, operator, caller, historyVars, limiterVars>>

(* The row is read again when the form comes back, with what the user made *)
(* of it: revoked_at set, cleared or as it was, another limit, or a label  *)
(* that does not matter here.                                              *)
SubmitForm(f) ==
  /\ form[f].step = "filled"
  /\ \E revoked \in BOOLEAN, rpm \in {form[f].rpm} \cup Limits :
       form' = [form EXCEPT ![f].step = IF row.there THEN "save" ELSE "failed",
                            ![f].revoked = revoked, ![f].rpm = rpm, ![f].read = row]
  /\ UNCHANGED <<row, audit, creator, operator, caller, historyVars, limiterVars>>

(* All of the row is saved, read-only fields too, as an UPDATE or, if      *)
(* there is nothing to update, an INSERT.                                  *)
SaveForm(f) ==
  /\ form[f].step = "save"
  /\ row' = [form[f].read EXCEPT !.revoked = form[f].revoked, !.rpm = form[f].rpm]
  /\ form' = [form EXCEPT ![f].step = "done", ![f].read = NoRow]
  /\ gone' = (gone \/ row'.revoked)
  /\ overwritten' = (overwritten \/ ~row.there \/ (row.revoked /\ ~row'.revoked))
  /\ UNCHANGED <<audit, creator, operator, caller, raced, limiterVars>>

FormFails(f) ==
  /\ form[f].step = "save"
  /\ form' = [form EXCEPT ![f].step = "failed", ![f].read = NoRow]
  /\ UNCHANGED <<row, audit, creator, operator, caller, historyVars, limiterVars>>

DeleteInAdmin(f) ==
  /\ form[f].step = "idle" /\ row.there
  /\ row' = NoRow
  /\ gone' = TRUE
  /\ form' = [form EXCEPT ![f].step = "done"]
  /\ UNCHANGED <<audit, creator, operator, caller, overwritten, raced, limiterVars>>

-----------------------------------------------------------------------------
(* revoke_api_key and delete_api_key, of a key their caller has read.      *)

(* What was read is not used again.                                        *)
OperatorAt(o, step) == operator' = [operator EXCEPT ![o] = [step |-> step, read |-> NoRow]]

OperatorReads(o) ==
  /\ operator[o].step = "idle" /\ row.there
  /\ \E step \in {"delete", IF row.revoked THEN "done" ELSE "revoke"} :
       operator' = [operator EXCEPT ![o] = [step |-> step, read |-> row]]
  /\ UNCHANGED <<row, audit, creator, form, caller, historyVars, limiterVars>>

\* Faulty variant of Revoke: the row is saved as it was read.
RevokeWhole(o) ==
  /\ operator[o].step = "revoke" /\ row.there
  /\ row' = [operator[o].read EXCEPT !.revoked = TRUE]
  /\ gone' = TRUE
  /\ OperatorAt(o, "auditRevoked")
  /\ UNCHANGED <<audit, creator, form, caller, overwritten, raced, limiterVars>>

(* Only revoked_at is saved; a row that is no longer there is an error.    *)
Revoke(o) ==
  /\ operator[o].step = "revoke" /\ row.there
  /\ row' = [row EXCEPT !.revoked = TRUE]
  /\ gone' = TRUE
  /\ OperatorAt(o, "auditRevoked")
  /\ UNCHANGED <<audit, creator, form, caller, overwritten, raced, limiterVars>>

DeleteKey(o) ==
  /\ operator[o].step = "delete"
  /\ row' = NoRow
  /\ gone' = TRUE
  /\ OperatorAt(o, "auditDeleted")
  /\ UNCHANGED <<audit, creator, form, caller, overwritten, raced, limiterVars>>

(* write_audit, outside a transaction; the entry of a revocation refers to *)
(* the row.                                                                *)
WriteAudit(o) ==
  /\ \/ /\ operator[o].step = "auditRevoked" /\ row.there
        /\ audit' = audit \cup {"revoked"}
     \/ /\ operator[o].step = "auditDeleted"
        /\ audit' = audit \cup {"deleted"}
  /\ OperatorAt(o, "done")
  /\ UNCHANGED <<row, creator, form, caller, historyVars, limiterVars>>

OperatorFails(o) ==
  /\ \/ operator[o].step \in {"revoke", "delete"} /\ OperatorAt(o, "failed")
     \/ operator[o].step \in {"auditRevoked", "auditDeleted"} /\ OperatorAt(o, "unaudited")
  /\ UNCHANGED <<row, audit, creator, form, caller, historyVars, limiterVars>>

-----------------------------------------------------------------------------
(* Requests.  The token is known once create_api_key has returned it.      *)

Issued == \E c \in Creators : creator[c] = "done"

CallerAt(r, step) == caller' = [caller EXCEPT ![r].step = step]

(* verify_bearer_token finds nothing wrong with the row.                   *)
Valid == row.there /\ ~row.revoked /\ minute < Expiry

\* Faulty variant of Verify: revoked_at is not looked at.
VerifyRevoked(r) ==
  /\ caller[r].step = "idle" /\ Issued
  /\ row.there /\ minute < Expiry
  /\ caller' = [caller EXCEPT ![r] = [step |-> "verified", path |-> "gateway",
                                      rpm |-> row.rpm, after |-> gone]]
  /\ UNCHANGED <<row, audit, creator, form, operator, historyVars, limiterVars>>

Verify(r) ==
  /\ caller[r].step = "idle" /\ Issued
  /\ Valid
  /\ caller' = [caller EXCEPT ![r] = [step |-> "verified", path |-> "gateway",
                                      rpm |-> row.rpm, after |-> gone]]
  /\ UNCHANGED <<row, audit, creator, form, operator, historyVars, limiterVars>>

(* 401, also for any other token; or the lookup raises.                    *)
Deny(r) ==
  /\ caller[r].step = "idle" /\ Issued
  /\ CallerAt(r, "denied")
  /\ UNCHANGED <<row, audit, creator, form, operator, historyVars, limiterVars>>

(* The dashboard's user has signed in; the key is read with the profile,   *)
(* and nobody asks whether it has been revoked.                            *)
ReadDefaultKey(r) ==
  /\ caller[r].step = "idle" /\ row.there
  /\ caller' = [caller EXCEPT ![r] = [step |-> "verified", path |-> "ui",
                                      rpm |-> row.rpm, after |-> gone]]
  /\ UNCHANGED <<row, audit, creator, form, operator, historyVars, limiterVars>>

(* GET /v1/models asks for a key and takes nothing from its limit.         *)
ListModels(r) ==
  /\ caller[r].step = "verified" /\ caller[r].path = "gateway"
  /\ CallerAt(r, "listed")
  /\ UNCHANGED <<row, audit, creator, form, operator, historyVars, limiterVars>>

Consume(r) ==
  /\ caller[r].step = "verified"
  /\ StartCheck(r, caller[r].path, caller[r].rpm)
  /\ CallerAt(r, "checking")
  /\ UNCHANGED <<row, audit, creator, form, operator, historyVars>>

Checking(r) ==
  /\ caller[r].step = "checking"
  /\ LimiterStep(r)
  /\ UNCHANGED <<row, audit, actorVars, historyVars>>

(* The request is served, and queued, delayed and answered as it may be.   *)
Serve(r) ==
  /\ caller[r].step = "checking" /\ check[r].step \in {"allowed", "open"}
  /\ CallerAt(r, "served")
  /\ UNCHANGED <<row, audit, creator, form, operator, historyVars, limiterVars>>

Reject(r) ==
  /\ caller[r].step = "checking" /\ check[r].step \in {"refused", "raised"}
  /\ CallerAt(r, "rejected")
  /\ UNCHANGED <<row, audit, creator, form, operator, historyVars, limiterVars>>

(* One UPDATE adds one to requests_count, of a row that is still there.    *)
Touch(r) ==
  /\ caller[r].step = "served" /\ row.there
  /\ row' = [row EXCEPT !.uses = @ + 1]
  /\ raced' = (raced \/ \E f \in Forms : form[f].step = "save")
  /\ CallerAt(r, "touched")
  /\ UNCHANGED <<audit, creator, form, operator, gone, overwritten, limiterVars>>

(* Nothing refers to the gateway's task, whose failure is only logged.     *)
TouchLost(r) ==
  /\ caller[r].step = "served"
  /\ CallerAt(r, "untouched")
  /\ UNCHANGED <<row, audit, creator, form, operator, historyVars, limiterVars>>

Minute == Tick /\ UNCHANGED <<row, audit, actorVars, historyVars>>

CreatorStep(c) == Draw(c) \/ Insert(c)
FormStep(f) == OpenForm(f) \/ SubmitForm(f) \/ SaveForm(f) \/ FormFails(f) \/ DeleteInAdmin(f)
OperatorStep(o) ==
  OperatorReads(o) \/ Revoke(o) \/ DeleteKey(o) \/ WriteAudit(o) \/ OperatorFails(o)
CallerStep(r) ==
  \/ Verify(r) \/ Deny(r) \/ ReadDefaultKey(r) \/ ListModels(r) \/ Consume(r)
  \/ Checking(r) \/ Serve(r) \/ Reject(r) \/ Touch(r) \/ TouchLost(r)

Next ==
  \/ Minute
  \/ \E c \in Creators : CreatorStep(c)
  \/ \E f \in Forms : FormStep(f)
  \/ \E o \in Operators : OperatorStep(o)
  \/ \E r \in Requests : CallerStep(r)

Spec == Init /\ [][Next]_vars

-----------------------------------------------------------------------------
(* Properties.                                                             *)

TypeOK ==
  /\ LimiterTypeOK
  /\ row \in Rows
  /\ audit \subseteq {"created", "revoked", "deleted"}
  /\ creator \in [Creators -> CreatorSteps]
  /\ form \in [Forms -> FormStates]
  /\ operator \in [Operators -> OperatorStates]
  /\ caller \in [Requests -> Callers]
  /\ gone \in BOOLEAN /\ overwritten \in BOOLEAN /\ raced \in BOOLEAN

(* Once a key has been revoked or deleted, the gateway lets in nobody that *)
(* it had not verified before, unless a form has been saved over the       *)
(* revocation or the deletion, be it that its user cleared revoked_at or   *)
(* that it was opened earlier (crypto_auth.py:70; admin.py:12-22).         *)
NoAccessAfterRevocation ==
  \A r \in Requests : caller[r].path = "gateway" /\ caller[r].after => overwritten

(* requests_count counts each update that met the row once, whatever       *)
(* creators, operators and requests do meanwhile; only a form that was     *)
(* saved over an update takes it back (crypto_auth.py:91; usage.py:17).    *)
UsesAreCounted ==
  LET touched == Cardinality({r \in Requests : caller[r].step = "touched"})
  IN  row.there => row.uses <= touched /\ (raced \/ row.uses = touched)

(* A key that is there has the audit entry of its creation, and one that   *)
(* is revoked that of its revocation, unless it is about to be written,    *)
(* has failed to be, or the key was revoked in the admin site              *)
(* (keys.py:46-55,64-66).                                                  *)
ChangesAreAudited ==
  /\ row.there => "created" \in audit
  /\ row.there /\ row.revoked =>
       \/ "revoked" \in audit
       \/ \E o \in Operators : operator[o].step \in {"auditRevoked", "unaudited"}
       \/ \E f \in Forms : form[f].step = "done" /\ form[f].revoked

=============================================================================

--------------------------- MODULE MarketplaceReview ---------------------------
(***************************************************************************)
(* The marketplace side of one assistant: reviewers' decisions, the        *)
(* requests of its owner, and its document in the marketplace index.       *)
(*                                                                         *)
(* A decision is optimistic: it fixes the version it decides about, and    *)
(* one transaction compares that version, moves the row and writes the     *)
(* decision into a ledger.  Owners' requests save a copy whose marketplace *)
(* columns they refreshed a moment before: update() reads the row and      *)
(* writes the columns in which the copy differs from it.  The index is     *)
(* written after the commit, from whatever is committed by then.           *)
(***************************************************************************)
EXTENDS Integers

CONSTANTS
    Reviews,  \* decisions of reviewers on the assistant
    Owners,   \* requests of its owners and administrators
    Sender,   \* the user a request is sent by
    Now,      \* a decision that is pinned to no version
    Nobody    \* no request holds the assistant's index lock

Requests == Reviews \cup Owners

ASSUME ReviewAssumption == Now \notin Nat /\ Nobody \notin Requests

VARIABLES
    row,      \* the assistant's row: the marketplace columns
    ledger,   \* mm_review_decision
    req,      \* where each request stands
    indexed,  \* the marketplace index has a document of the assistant
    lock,     \* holder of the assistant's advisory lock for index writes
    loose     \* history: what went past the ledger or past the index

vars == <<row, ledger, req, indexed, lock, loose>>

Statuses == {"DRAFT", "PENDING_REVIEW", "APPROVED", "REJECTED", "WITHDRAWN"}
Decisions == {"SUBMIT", "APPROVE", "REJECT", "FORCE_PUBLISH", "WITHDRAW", "RE_SUBMIT"}
Plans == {"none", "review", "unpublish", "remove", "delete", "edit", "rollback", "skill", "submit",
          "force", "open", "subSubmit", "subForce", "subOpen", "subShow", "subHide"}
Steps == {"new", "refresh", "write", "resave", "filter", "rewrite", "close", "read", "lookup",
          "cas", "sync", "apply", "delete", "done"}
Columns == [there : BOOLEAN, status : Statuses, global : BOOLEAN, version : Nat]
Entries == [from : Nat, decision : Decisions, request : Requests, unseen : SUBSET Requests]
Names == {"status", "global", "version"}
Records == [plan : Plans, step : Steps, copy : Columns, got : BOOLEAN, dirty : SUBSET Names,
            changes : BOOLEAN, review : BOOLEAN, decision : Decisions,
            at : Nat \cup {Now}, public : BOOLEAN, unseen : SUBSET Requests,
            task : {"index", "remove"}, fact : {"index", "remove", "unknown"}]

TypeOK ==
    /\ row \in Columns
    /\ ledger \subseteq Entries
    /\ req \in [Requests -> Records]
    /\ indexed \in BOOLEAN
    /\ lock \in Requests \cup {Nobody}
    /\ loose \subseteq {"overwrite", "mixed", "unchecked", "unlisted", "missed"}

\* versions are counted from the assistant's present one
Rows(status, global) == [there |-> TRUE, status |-> status, global |-> global, version |-> 0]
Starts == {Rows("DRAFT", FALSE), Rows("DRAFT", TRUE), Rows("PENDING_REVIEW", FALSE),
           Rows("APPROVED", TRUE), Rows("REJECTED", FALSE), Rows("WITHDRAWN", FALSE)}

\* a request that has not begun; only what is still needed of it is kept later
Fresh ==
    [plan |-> "none", step |-> "new", changes |-> FALSE, review |-> FALSE,
     copy |-> [Rows("DRAFT", FALSE) EXCEPT !.there = FALSE], got |-> FALSE, dirty |-> {},
     decision |-> "SUBMIT", at |-> Now, public |-> FALSE, unseen |-> {},
     task |-> "remove", fact |-> "unknown"]

Init ==
    /\ row \in Starts
    /\ ledger = {}
    /\ req = [r \in Requests |-> Fresh]
    /\ indexed = row.global
    /\ lock = Nobody
    /\ loose = {}

-----------------------------------------------------------------------------
(* The state machine of decisions *)

Submittable == {"DRAFT", "REJECTED", "WITHDRAWN"}

\* TRANSITIONS: the statuses a decision is allowed from, those allowed while the row is
\* public, the status and visibility it leads to
Rule(from, ifGlobal, to, global) == [from |-> from, ifGlobal |-> ifGlobal, to |-> to, global |-> global]
Transitions(d) ==
    CASE d = "SUBMIT" -> Rule(Submittable, {}, "PENDING_REVIEW", FALSE)
      [] d = "APPROVE" -> Rule({"PENDING_REVIEW"}, {}, "APPROVED", TRUE)
      [] d = "REJECT" -> Rule({"PENDING_REVIEW"}, {}, "REJECTED", FALSE)
      [] d = "FORCE_PUBLISH" -> Rule(Submittable \cup {"PENDING_REVIEW"}, {}, "APPROVED", TRUE)
      [] d = "WITHDRAW" -> Rule({"PENDING_REVIEW", "APPROVED"}, {"DRAFT"}, "WITHDRAWN", FALSE)
      [] d = "RE_SUBMIT" -> Rule({"PENDING_REVIEW", "APPROVED"}, {}, "PENDING_REVIEW", FALSE)

Allowed(d) ==
    \/ row.status \in Transitions(d).from
    \/ row.global /\ row.status \in Transitions(d).ifGlobal

\* mutant: a re-submission keeps the version
MovedUnlessResubmit(d) ==
    [row EXCEPT !.status = Transitions(d).to, !.global = Transitions(d).global,
                !.version = IF d = "RE_SUBMIT" THEN @ ELSE @ + 1]
\* _CAS_SQL: what the UPDATE sets
Moved(d) ==
    [row EXCEPT !.status = Transitions(d).to, !.global = Transitions(d).global,
                !.version = @ + 1]

Taken(v) == \E d \in ledger : d.from = v
\* _derive_key: the same decision of the same user about the same version
Recorded(r) ==
    \E d \in ledger : d.from = req[r].at /\ d.decision = req[r].decision
                     /\ Sender[d.request] = Sender[r]

\* _side_effects: whether a decision touches the index, and how
Touches(d, public) == d = "SUBMIT" => public
TaskOf(d) == IF Transitions(d).global THEN "index" ELSE "remove"
Done == [Fresh EXCEPT !.step = "done"]
Syncs(r, task) == [Fresh EXCEPT !.plan = req[r].plan, !.step = "sync", !.task = task]
Decided(r, public) ==
    IF Touches(req[r].decision, public) THEN Syncs(r, TaskOf(req[r].decision)) ELSE Done

At(r, step) == req[r].step = step
Set(r, record) == req' = [req EXCEPT ![r] = record]
Go(r, step) == Set(r, [req[r] EXCEPT !.step = step])
\* a request goes on to a decision
Calls(plan, d, at) ==
    [Fresh EXCEPT !.plan = plan, !.step = "read", !.decision = d, !.at = at]

-----------------------------------------------------------------------------
(* decide() *)

\* mutant: expected_version is forgotten
ObservedNow(r) == row.version
Observed(r) == IF req[r].at = Now THEN row.version ELSE req[r].at

\* the current row is read; an assistant that is gone ends the request
Read(r) ==
    /\ At(r, "read")
    /\ IF row.there
       THEN Set(r, [req[r] EXCEPT !.step = "lookup", !.at = Observed(r), !.public = row.global])
       ELSE Set(r, Done)
    /\ UNCHANGED <<row, ledger, indexed, lock, loose>>

\* a decision that is recorded already is replayed: only its effect on the index is repeated
Lookup(r) ==
    /\ At(r, "lookup")
    /\ IF Recorded(r) THEN Set(r, Decided(r, TRUE)) ELSE Go(r, "cas")
    /\ UNCHANGED <<row, ledger, indexed, lock, loose>>

\* the pre-CAS hook finds critical findings
GateBlocks(r) ==
    /\ At(r, "cas") /\ req[r].decision = "APPROVE"
    /\ Set(r, Done)
    /\ UNCHANGED <<row, ledger, indexed, lock, loose>>

\* compare-and-set and ledger row, in one transaction
Decide(r) ==
    LET d == req[r].decision
    IN /\ At(r, "cas")
       /\ row.there /\ row.version = req[r].at /\ Allowed(d)
       /\ ~Taken(req[r].at)
       /\ row' = Moved(d)
       /\ ledger' = ledger \cup {[from |-> req[r].at, decision |-> d, request |-> r,
                                  unseen |-> req[r].unseen]}
       /\ Set(r, Decided(r, req[r].public))
       /\ UNCHANGED <<indexed, lock, loose>>

\* the UPDATE matches no row, or the ledger has a decision from that version
Conflict(r) ==
    /\ At(r, "cas")
    /\ \/ ~(row.there /\ row.version = req[r].at /\ Allowed(req[r].decision))
       \/ Taken(req[r].at)
    /\ Set(r, Done)
    /\ UNCHANGED <<row, ledger, indexed, lock, loose>>

-----------------------------------------------------------------------------
(* Index writes *)

\* _converged_action
\* mutant: what was asked for
ConvergedRequested(task, published) == task
Converged(task, published) == IF published THEN "index" ELSE "remove"

\* the committed row is read under the assistant's lock
SyncReads(r) ==
    /\ At(r, "sync") /\ lock = Nobody
    /\ lock' = r
    /\ Set(r, [req[r] EXCEPT !.step = "apply",
                             !.fact = Converged(req[r].task, row.there /\ row.global)])
    /\ UNCHANGED <<row, ledger, indexed, loose>>

\* PostgreSQL cannot be asked: no lock, and only a removal is made
SyncUnread(r) ==
    /\ At(r, "sync")
    /\ loose' = loose \cup {"missed"}
    /\ IF req[r].task = "index"
       THEN Set(r, Done)
       ELSE Set(r, [req[r] EXCEPT !.step = "apply", !.fact = "remove"])
    /\ UNCHANGED <<row, ledger, indexed, lock>>

Unlocked(r) == IF lock = r THEN Nobody ELSE lock

\* the document is written or removed, or both attempts fail; an unpublish removes again
SyncWrites(r) ==
    /\ At(r, "apply")
    /\ \/ indexed' = (req[r].fact = "index") /\ UNCHANGED loose
       \/ loose' = loose \cup {"missed"} /\ UNCHANGED indexed
    /\ lock' = Unlocked(r)
    /\ IF req[r].plan = "unpublish"
       THEN Set(r, [Syncs(r, "remove") EXCEPT !.plan = "remove"])
       ELSE Set(r, Done)
    /\ UNCHANGED <<row, ledger>>

-----------------------------------------------------------------------------
(* Requests begin *)

\* a reviewer decides about the version looked at, or about whatever is there
BeginReview(r) ==
    \E d \in {"APPROVE", "REJECT", "FORCE_PUBLISH", "WITHDRAW"},
       at \in {row.version, Now} :
        /\ At(r, "new") /\ row.there
        /\ d = "WITHDRAW" => at = Now
        /\ Set(r, Calls("review", d, at))
        /\ UNCHANGED <<row, ledger, indexed, lock, loose>>

BeginUnpublish(r) ==
    /\ At(r, "new") /\ row.there
    /\ Set(r, Calls("unpublish", "WITHDRAW", Now))
    /\ UNCHANGED <<row, ledger, indexed, lock, loose>>

\* the assistant is loaded; from then on the request works with its copy
Loads(r, plan, step) ==
    /\ At(r, "new") /\ row.there
    /\ Set(r, [req[r] EXCEPT !.plan = plan, !.step = step, !.copy = row])
    /\ UNCHANGED <<row, ledger, indexed, lock, loose>>

BeginDelete(r) == Loads(r, "delete", "delete")

BeginRollback(r) == Loads(r, "rollback", "refresh")

\* a skill is attached or detached; the row is written without a refresh
BeginSkill(r) == Loads(r, "skill", "write")

\* publish: the approval gate is armed or not, an administrator skips the queue
BeginPublish(r) ==
    \E plan \in {"submit", "force", "open"} : Loads(r, plan, "refresh")

\* a parent is published with this assistant; the loaded status decides what is done
BeginSubPublish(r) ==
    \E plan \in {"subSubmit", "subForce", "subOpen", "subShow", "subHide"} :
        /\ plan \in {"subSubmit", "subForce", "subOpen"} => row.status \in Submittable
        /\ plan = "subShow" => row.status = "APPROVED"
        /\ Loads(r, plan, "refresh")

\* an edit; whether it asks for a review is decided from the loaded status
BeginEdit(r) ==
    \E changes, armed \in BOOLEAN :
        /\ At(r, "new") /\ row.there
        /\ Set(r, [req[r] EXCEPT
                     !.plan = "edit", !.step = "refresh", !.copy = row,
                     !.changes = changes, !.public = row.global,
                     !.review = /\ changes
                                /\ \/ row.status = "PENDING_REVIEW"
                                   \/ row.status = "APPROVED" /\ armed])
        /\ UNCHANGED <<row, ledger, indexed, lock, loose>>

-----------------------------------------------------------------------------
(* Saves *)

\* refresh_marketplace_columns_from_db: the copy's marketplace columns are the row's
Refreshed(r) == IF row.there THEN row ELSE req[r].copy
Refresh(r) ==
    /\ req[r].step \in {"refresh", "filter"}
    /\ Set(r, [req[r] EXCEPT !.copy = Refreshed(r),
                             !.step = IF @ = "refresh" THEN "write" ELSE "rewrite"])
    /\ UNCHANGED <<row, ledger, indexed, lock, loose>>

\* what a request sets in its refreshed copy before it writes
\* mutant: a public row is reset as well
AltersPublic(r) ==
    LET c == req[r].copy
    IN IF req[r].plan = "submit" /\ c.status \notin Submittable
       THEN [c EXCEPT !.status = "DRAFT"] ELSE c
Alters(r) ==
    LET c == req[r].copy
        p == req[r].plan
    IN IF p = "submit" /\ ~c.global /\ c.status \notin Submittable
       THEN [c EXCEPT !.status = "DRAFT"]
       ELSE IF p \in {"open", "subOpen"} THEN [c EXCEPT !.status = "APPROVED", !.global = TRUE]
       ELSE IF p = "subShow" THEN [c EXCEPT !.global = TRUE]
       ELSE IF p = "subHide" THEN [c EXCEPT !.global = FALSE]
       ELSE c

\* BaseModelWithSQLSupport.update reads the row: what differs from it will be written
Get(r) ==
    /\ req[r].step \in {"write", "resave", "rewrite"} /\ ~req[r].got /\ row.there
    /\ Set(r, [req[r] EXCEPT !.got = TRUE, !.dirty = {c \in Names : Alters(r)[c] # row[c]}])
    /\ UNCHANGED <<row, ledger, indexed, lock, loose>>
Flushed(r) == [c \in DOMAIN row |-> IF c \in req[r].dirty THEN Alters(r)[c] ELSE row[c]]

\* history: what the write overwrites unseen, what it makes of the row that is neither the
\* row it finds nor the one it means to write, what it shows unreviewed, or does not tell the index
Slips(r) ==
    {s \in {"overwrite", "mixed", "unchecked", "unlisted"} :
        \/ s = "overwrite" /\ row # req[r].copy /\ Flushed(r) # row
        \/ s = "mixed" /\ Flushed(r) # row /\ Flushed(r) # Alters(r)
        \/ s = "unchecked" /\ req[r].plan = "subShow" /\ req[r].copy.status # "APPROVED"
        \/ s = "unlisted" /\ req[r].plan \in {"subOpen", "subShow", "subHide"}
                          /\ Flushed(r).global # row.global}

\* the content of an edit is new to whoever has fixed a version to decide about
Fixed(q) == req[q].plan = "review" /\ req[q].step \in {"read", "lookup", "cas"} /\ req[q].at # Now
Writing(r) ==
    \/ req[r].plan \in {"rollback", "skill"}
    \/ req[r].plan = "edit" /\ req[r].changes
Shown(r, record) ==
    [q \in Requests |->
        IF q = r THEN record
        ELSE IF Writing(r) /\ Fixed(q) THEN [req[q] EXCEPT !.unseen = @ \cup {r}]
        ELSE req[q]]

\* update() commits, and where the request goes from there
Writes(r, record) ==
    /\ req[r].got /\ row.there
    /\ row' = Flushed(r)
    /\ req' = Shown(r, record)
    /\ loose' = loose \cup Slips(r)
    /\ UNCHANGED <<ledger, indexed, lock>>

\* an edit saves, saves the number of its new version, and saves a filtered context
SaveEdit(r) ==
    /\ req[r].plan = "edit" /\ req[r].step \in {"write", "resave", "rewrite"}
    /\ \E next \in {"resave", "filter", "close"} :
        /\ next = "resave" => At(r, "write") /\ req[r].changes
        /\ next = "filter" => req[r].step \in {"write", "resave"}
        /\ Writes(r, [req[r] EXCEPT !.step = next, !.got = FALSE, !.dirty = {}])

\* the second half of an edit: back into review, or the index is refreshed
CloseEdit(r) ==
    /\ At(r, "close")
    /\ Set(r, IF req[r].review THEN Calls(req[r].plan, "RE_SUBMIT", req[r].copy.version)
              ELSE IF req[r].public \/ req[r].copy.global
              THEN Syncs(r, "index")
              ELSE Done)
    /\ UNCHANGED <<row, ledger, indexed, lock, loose>>

SaveSkill(r) ==
    /\ req[r].plan = "skill" /\ At(r, "write")
    /\ Writes(r, Done)

SaveRollback(r) ==
    \E armed \in BOOLEAN :
        /\ req[r].plan = "rollback" /\ At(r, "write")
        /\ Writes(r, IF \/ req[r].copy.status = "APPROVED" /\ armed
                        \/ req[r].copy.status = "PENDING_REVIEW"
                     THEN Calls(req[r].plan, "RE_SUBMIT", req[r].copy.version)
                     ELSE Done)

\* the owner's publish goes through the queue
SaveSubmit(r) ==
    /\ req[r].plan \in {"submit", "subSubmit"} /\ At(r, "write")
    /\ Writes(r, Calls(req[r].plan, IF Alters(r).status = "APPROVED" THEN "RE_SUBMIT" ELSE "SUBMIT", Now))

\* an administrator's publish; of an approved assistant only the metadata are saved
SaveForce(r) ==
    /\ req[r].plan \in {"force", "subForce"} /\ At(r, "write")
    /\ Writes(r, IF req[r].plan = "force" /\ req[r].copy.status = "APPROVED"
                 THEN Syncs(r, "index")
                 ELSE Calls(req[r].plan, "FORCE_PUBLISH", Now))

\* a publish with the gate off, and what a parent's publish sets directly
SaveDirect(r) ==
    /\ req[r].plan \in {"open", "subOpen", "subShow", "subHide"} /\ At(r, "write")
    /\ Writes(r, IF req[r].plan = "open" THEN Syncs(r, "index")
                 ELSE Done)

\* the row is gone: StaleDataError
WriteFails(r) ==
    /\ req[r].step \in {"write", "resave", "rewrite"} /\ ~row.there
    /\ Set(r, Done)
    /\ UNCHANGED <<row, ledger, indexed, lock, loose>>

\* delete: the index is told if the loaded assistant was public
Delete(r) ==
    /\ At(r, "delete")
    /\ row' = [row EXCEPT !.there = FALSE]
    /\ Set(r, IF req[r].copy.global THEN Syncs(r, "remove")
              ELSE Done)
    /\ loose' = IF row.there /\ row.global /\ ~req[r].copy.global
                THEN loose \cup {"unlisted"} ELSE loose
    /\ UNCHANGED <<ledger, indexed, lock>>

\* the pod of a request dies
Crash(r) ==
    /\ req[r].step \notin {"new", "done"}
    /\ Set(r, Done)
    /\ lock' = Unlocked(r)
    /\ loose' = loose \cup {"missed"}
    /\ UNCHANGED <<row, ledger, indexed>>

DecideStep(r) == Read(r) \/ Lookup(r) \/ GateBlocks(r) \/ Decide(r) \/ Conflict(r)
SyncStep(r) == SyncReads(r) \/ SyncUnread(r) \/ SyncWrites(r)
OwnerBegins(r) ==
    \/ BeginUnpublish(r) \/ BeginDelete(r) \/ BeginRollback(r) \/ BeginSkill(r)
    \/ BeginPublish(r) \/ BeginSubPublish(r) \/ BeginEdit(r)
SaveStep(r) ==
    \/ Refresh(r) \/ Get(r) \/ SaveEdit(r) \/ CloseEdit(r) \/ SaveSkill(r) \/ SaveRollback(r) \/ SaveSubmit(r)
    \/ SaveForce(r) \/ SaveDirect(r) \/ WriteFails(r) \/ Delete(r)

RequestStep(r) == DecideStep(r) \/ SaveStep(r) \/ SyncStep(r) \/ Crash(r)

Next ==
    \/ \E r \in Reviews : BeginReview(r)
    \/ \E r \in Owners : OwnerBegins(r)
    \/ \E r \in Requests : RequestStep(r)

Spec == Init /\ [][Next]_vars

-----------------------------------------------------------------------------
(* Properties *)

\* Two decisions are never taken from one version and none is skipped, whatever copies are
\* written back; and while none was written over a decision, the next one is still possible
\* (the ledger's uniqueness rules "should be unreachable while the CAS above is correct").
LedgerIsAChain ==
    /\ \A d, e \in ledger : d.from = e.from => d = e
    /\ \A d \in ledger : \A v \in 0..(d.from - 1) : Taken(v)
    /\ \A v \in 0..(row.version - 1) : Taken(v)
    /\ "overwrite" \notin loose => ~Taken(row.version)

\* A reviewer's decision never covers an edit that was saved after the reviewer fixed the
\* version and sent back into review before the decision took effect: it conflicts instead.
StaleReviewsConflict ==
    \A d, e \in ledger :
        e.decision = "RE_SUBMIT" /\ e.request \in d.unseen => d.from < e.from

\* Whatever is written back, only approved assistants are public, or drafts that were public
\* before there were reviews.  A parent's publish may break this, as it checks the status of
\* a copy and shows the row; so may a save whose columns meet a decision that was committed
\* after it had read the row.
PublicOnlyApproved ==
    {"unchecked", "mixed"} \cap loose = {} /\ row.there /\ row.global =>
        row.status = "APPROVED" \/ (row.status = "DRAFT" /\ row.version = 0)

\* When no request is under way the index shows the assistant exactly if it is public, in
\* whatever order decisions and index writes came, unless an index write was missed or a
\* visibility was written over a decision or past the index.
IndexFollowsRow ==
    (\A r \in Requests : req[r].step \in {"new", "done"}) /\ loose = {} =>
        indexed = (row.there /\ row.global)
=============================================================================

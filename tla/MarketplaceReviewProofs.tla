------------------------ MODULE MarketplaceReviewProofs ------------------------
(***************************************************************************)
(* Proofs about MarketplaceReview: the types, that the decisions form a    *)
(* chain of versions, that reviews of content that has changed conflict,   *)
(* and what can be public.                                                 *)
(***************************************************************************)
EXTENDS MarketplaceReview, TLAPS

\* a request that has not taken its decision, if it takes one
Undecided(record) ==
    record.step \in {"new", "refresh", "write", "resave", "filter", "rewrite", "close",
                     "read", "lookup", "cas"}

\* what a step of a request may make of the request's record
Follows(r, record) ==
    /\ record \in Records
    /\ record.copy \in {req[r].copy, row, Fresh.copy}
    /\ record.at \in {req[r].at, row.version, req[r].copy.version, Now}
    /\ \/ record.unseen = {}
       \/ record.unseen = req[r].unseen /\ (req[r].at # Now => record.at = req[r].at)
    /\ Undecided(record) => Undecided(req[r])

\* a step that takes no decision and writes no copy back
Quiet(r) ==
    /\ \E record : Follows(r, record) /\ Set(r, record)
    /\ row' \in {row, [row EXCEPT !.there = FALSE]}
    /\ ledger' = ledger
    /\ loose \subseteq loose' /\ loose' \subseteq loose \cup {"unlisted", "missed"}
    /\ indexed' \in BOOLEAN /\ lock' \in {r, lock, Nobody}

\* a step that writes a copy back
Rewrites(r) ==
    /\ Undecided(req[r])
    /\ \E record : Follows(r, record) /\ Writes(r, record)

LEMMA RecordType ==
    ASSUME TypeOK, NEW r \in Requests
    PROVE  req[r] \in Records /\ row \in Columns /\ row.global \in BOOLEAN
BY DEF TypeOK, Columns

LEMMA FreshType == Fresh \in Records /\ Done \in Records
BY DEF Fresh, Done, Records, Rows, Columns, Plans, Steps, Statuses, Decisions

LEMMA CallsFollow ==
    ASSUME TypeOK, NEW r \in Requests, NEW plan \in Plans, NEW d \in Decisions,
           NEW at \in {req[r].at, row.version, req[r].copy.version, Now},
           Undecided(req[r])
    PROVE  Follows(r, Calls(plan, d, at))
<1>1. at \in Nat \cup {Now}
  BY DEF TypeOK, Records, Columns
<1>2. Calls(plan, d, at) \in Records
  BY <1>1, FreshType DEF Calls, Records, Steps
<1> QED BY <1>2 DEF Calls, Follows, Fresh

LEMMA SyncsFollow ==
    ASSUME TypeOK, NEW r \in Requests, NEW task \in {"index", "remove"}
    PROVE  Follows(r, Syncs(r, task))
<1>1. Syncs(r, task) \in Records
  BY FreshType DEF Syncs, Records, TypeOK, Steps
<1> QED BY <1>1 DEF Syncs, Follows, Fresh, Undecided

LEMMA DoneFollows == ASSUME NEW r PROVE Follows(r, Done)
BY FreshType DEF Done, Follows, Fresh, Undecided

LEMMA DecidedFollows ==
    ASSUME TypeOK, NEW r \in Requests, NEW public \in BOOLEAN
    PROVE  Follows(r, Decided(r, public))
<1>1. TaskOf(req[r].decision) \in {"index", "remove"}
  BY DEF TaskOf
<1> QED BY <1>1, SyncsFollow, DoneFollows DEF Decided

LEMMA Refreshes == ASSUME NEW r PROVE Refreshed(r) \in {row, req[r].copy}
BY DEF Refreshed

\* every begin, every step of a decision but the compare-and-set, and every step of an
\* index write is quiet
LEMMA BeginsQuiet ==
    ASSUME TypeOK, NEW r \in Requests, BeginReview(r) \/ OwnerBegins(r)
    PROVE  Quiet(r)
<1>1. CASE BeginReview(r)
  BY <1>1, CallsFollow DEF BeginReview, Quiet, At, Undecided, Plans, Decisions, TypeOK
<1>2. CASE BeginUnpublish(r)
  BY <1>2, CallsFollow DEF BeginUnpublish, Quiet, At, Undecided, Plans, Decisions, TypeOK
<1>3. ASSUME NEW plan \in Plans, NEW step \in Steps, Loads(r, plan, step)
      PROVE  Quiet(r)
  <2> DEFINE record == [req[r] EXCEPT !.plan = plan, !.step = step, !.copy = row]
  <2>0. req[r] \in Records /\ row \in Columns
    BY RecordType
  <2>1. record \in Records
    BY <2>0 DEF Records
  <2>2. Follows(r, record)
    BY <1>3, <2>1 DEF Follows, Loads, At, Undecided, TypeOK, Records
  <2> QED BY <1>3, <2>2 DEF Loads, Quiet, TypeOK
<1>4. CASE BeginDelete(r) \/ BeginRollback(r) \/ BeginSkill(r) \/ BeginPublish(r) \/ BeginSubPublish(r)
  BY <1>3, <1>4 DEF BeginDelete, BeginRollback, BeginSkill, BeginPublish, BeginSubPublish,
                    Plans, Steps
<1>5. CASE BeginEdit(r)
  <2>1. PICK changes \in BOOLEAN, armed \in BOOLEAN :
          /\ At(r, "new")
          /\ Set(r, [req[r] EXCEPT
                       !.plan = "edit", !.step = "refresh", !.copy = row,
                       !.changes = changes, !.public = row.global,
                       !.review = /\ changes
                                  /\ \/ row.status = "PENDING_REVIEW"
                                     \/ row.status = "APPROVED" /\ armed])
          /\ UNCHANGED <<row, ledger, indexed, lock, loose>>
    BY <1>5 DEF BeginEdit
  <2> DEFINE review == /\ changes
                       /\ \/ row.status = "PENDING_REVIEW"
                          \/ row.status = "APPROVED" /\ armed
             record == [req[r] EXCEPT
                          !.plan = "edit", !.step = "refresh", !.copy = row,
                          !.changes = changes, !.public = row.global, !.review = review]
  <2>2. review \in BOOLEAN
    OBVIOUS
  <2> HIDE DEF review
  <2>3. req[r] \in Records /\ row \in Columns /\ row.global \in BOOLEAN
    BY RecordType
  <2>4. record \in Records
    BY <2>2, <2>3 DEF Records, Plans, Steps
  <2>5. Follows(r, record)
    BY <2>1, <2>4 DEF Follows, At, Undecided, TypeOK, Records
  <2>6. Set(r, record)
    BY <2>1 DEF review
  <2> QED BY <2>1, <2>5, <2>6 DEF Quiet, TypeOK
<1> QED BY <1>1, <1>2, <1>4, <1>5 DEF OwnerBegins

LEMMA DecideQuiet ==
    ASSUME TypeOK, NEW r \in Requests, Read(r) \/ Lookup(r) \/ GateBlocks(r) \/ Conflict(r)
    PROVE  Quiet(r)
<1>1. CASE Read(r)
  <2> DEFINE record == [req[r] EXCEPT !.step = "lookup", !.at = Observed(r), !.public = row.global]
  <2>1. Observed(r) \in {row.version, req[r].at} /\ (req[r].at # Now => Observed(r) = req[r].at)
    BY DEF Observed
  <2>2. Observed(r) \in Nat \cup {Now}
    BY <2>1, RecordType DEF Records, Columns
  <2> HIDE DEF Observed
  <2>3. req[r] \in Records /\ row.global \in BOOLEAN
    BY RecordType
  <2>5. record \in Records
    BY <2>2, <2>3 DEF Records, Steps
  <2>6. Follows(r, record)
    BY <1>1, <2>1, <2>5 DEF Follows, Read, At, Undecided, TypeOK, Records
  <2> QED BY <1>1, <2>6, DoneFollows DEF Read, Quiet, TypeOK
<1>2. CASE Lookup(r)
  <2> DEFINE record == [req[r] EXCEPT !.step = "cas"]
  <2>1. record \in Records
    BY RecordType DEF Records, Steps
  <2>2. Follows(r, record)
    BY <1>2, <2>1 DEF Follows, Lookup, At, Undecided, TypeOK, Records
  <2> QED BY <1>2, <2>2, DecidedFollows DEF Lookup, Go, Quiet, TypeOK
<1>3. CASE GateBlocks(r)
  BY <1>3, DoneFollows DEF GateBlocks, Quiet, TypeOK
<1>4. CASE Conflict(r)
  BY <1>4, DoneFollows DEF Conflict, Quiet, TypeOK
<1> QED BY <1>1, <1>2, <1>3, <1>4

LEMMA SyncQuiet == ASSUME TypeOK, NEW r \in Requests, SyncStep(r) PROVE Quiet(r)
<1>1. CASE SyncReads(r)
  <2> DEFINE fact == Converged(req[r].task, row.there /\ row.global)
             record == [req[r] EXCEPT !.step = "apply", !.fact = fact]
  <2>1. fact \in {"index", "remove"}
    BY DEF Converged
  <2> HIDE DEF fact
  <2>2. record \in Records
    BY <2>1, RecordType DEF Records, Steps
  <2>3. Follows(r, record)
    BY <2>2 DEF Follows, Undecided, TypeOK, Records
  <2> QED BY <1>1, <2>3 DEF SyncReads, Quiet, TypeOK, fact
<1>2. CASE SyncUnread(r)
  <2> DEFINE record == [req[r] EXCEPT !.step = "apply", !.fact = "remove"]
  <2>1. record \in Records
    BY RecordType DEF Records, Steps
  <2>2. Follows(r, record)
    BY <2>1 DEF Follows, Undecided, TypeOK, Records
  <2> QED BY <1>2, <2>2, DoneFollows DEF SyncUnread, Quiet, TypeOK
<1>3. CASE SyncWrites(r)
  <2> DEFINE record == [Syncs(r, "remove") EXCEPT !.plan = "remove"]
  <2>1. record \in Records
    BY SyncsFollow DEF Follows, Records, Plans
  <2>2. Follows(r, record)
    BY <2>1 DEF Follows, Syncs, Fresh, Undecided
  <2>3. lock' \in {r, lock, Nobody}
    BY <1>3 DEF SyncWrites, Unlocked
  <2>4. \E new : Follows(r, new) /\ Set(r, new)
    BY <1>3, <2>2, DoneFollows DEF SyncWrites
  <2> QED BY <1>3, <2>3, <2>4 DEF SyncWrites, Quiet, TypeOK
<1> QED BY <1>1, <1>2, <1>3 DEF SyncStep

\* the steps of the owners' requests are quiet or write a copy back
LEMMA SaveKinds ==
    ASSUME TypeOK, NEW r \in Requests, SaveStep(r)
    PROVE  Quiet(r) \/ Rewrites(r)
<1>1. CASE Refresh(r)
  <2> DEFINE next == IF req[r].step = "refresh" THEN "write" ELSE "rewrite"
             record == [req[r] EXCEPT !.copy = Refreshed(r), !.step = next]
  <2>1. record \in Records
    BY Refreshes, RecordType DEF Records, Steps
  <2>2. Follows(r, record)
    BY <1>1, <2>1, Refreshes DEF Follows, Refresh, Undecided, TypeOK, Records
  <2>3. Set(r, record)
    BY <1>1 DEF Refresh, Set, TypeOK, Records
  <2> QED BY <1>1, <2>2, <2>3 DEF Refresh, Quiet, TypeOK
<1>2. CASE SaveEdit(r)
  <2>1. PICK next \in {"resave", "filter", "close"} :
          Writes(r, [req[r] EXCEPT !.step = next, !.got = FALSE, !.dirty = {}])
    BY <1>2 DEF SaveEdit
  <2> DEFINE record == [req[r] EXCEPT !.step = next, !.got = FALSE, !.dirty = {}]
  <2>2. record \in Records
    BY RecordType DEF Records, Steps
  <2>3. Undecided(req[r])
    BY <1>2 DEF SaveEdit, Undecided
  <2>4. Follows(r, record)
    BY <2>2, <2>3, RecordType DEF Follows, Records
  <2> QED BY <2>1, <2>3, <2>4 DEF Rewrites
<1>12. CASE Get(r)
  <2> DEFINE dirty == {c \in Names : Alters(r)[c] # row[c]}
             record == [req[r] EXCEPT !.got = TRUE, !.dirty = dirty]
  <2>1. dirty \in SUBSET Names
    OBVIOUS
  <2>2. Set(r, record)
    BY <1>12 DEF Get
  <2> HIDE DEF dirty
  <2>0. req[r] \in Records
    BY RecordType
  <2>3. record \in Records
    BY <2>0, <2>1 DEF Records
  <2>4. Follows(r, record)
    BY <2>3, RecordType DEF Follows, Undecided, Records
  <2> QED BY <1>12, <2>2, <2>4 DEF Get, Quiet, TypeOK
<1>3. CASE CloseEdit(r)
  <2>1. Undecided(req[r])
    BY <1>3 DEF CloseEdit, At, Undecided
  <2>2. req[r].plan \in Plans
    BY DEF TypeOK, Records
  <2>3. Follows(r, Calls(req[r].plan, "RE_SUBMIT", req[r].copy.version))
    BY <2>1, <2>2, CallsFollow DEF Decisions
  <2> QED BY <1>3, <2>3, SyncsFollow, DoneFollows DEF CloseEdit, Quiet, TypeOK
<1>4. CASE SaveSkill(r)
  BY <1>4, DoneFollows DEF SaveSkill, At, Rewrites, Undecided
<1>5. ASSUME NEW d \in Decisions, NEW at \in {Now, req[r].copy.version}, At(r, "write")
      PROVE  Follows(r, Calls(req[r].plan, d, at))
  BY <1>5, CallsFollow DEF At, Undecided, TypeOK, Records
<1>6. CASE SaveRollback(r)
  BY <1>5, <1>6, DoneFollows DEF SaveRollback, At, Rewrites, Undecided, Decisions
<1>7. CASE SaveSubmit(r)
  BY <1>5, <1>7 DEF SaveSubmit, At, Rewrites, Undecided, Decisions
<1>8. CASE SaveForce(r)
  BY <1>5, <1>8, SyncsFollow DEF SaveForce, At, Rewrites, Undecided, Decisions
<1>9. CASE SaveDirect(r)
  BY <1>9, SyncsFollow, DoneFollows DEF SaveDirect, At, Rewrites, Undecided
<1>10. CASE WriteFails(r)
  BY <1>10, DoneFollows DEF WriteFails, Quiet, TypeOK
<1>11. CASE Delete(r)
  <2>1. \E new : Follows(r, new) /\ Set(r, new)
    BY <1>11, SyncsFollow, DoneFollows DEF Delete
  <2> QED BY <1>11, <2>1 DEF Delete, Quiet, TypeOK
<1> QED BY <1>1, <1>2, <1>3, <1>4, <1>6, <1>7, <1>8, <1>9, <1>10, <1>11, <1>12 DEF SaveStep

\* every step is of one of three kinds
LEMMA Kinds ==
    ASSUME TypeOK, Next
    PROVE  \E r \in Requests : Quiet(r) \/ Rewrites(r) \/ Decide(r)
<1>1. ASSUME NEW r \in Requests, RequestStep(r)
      PROVE  Quiet(r) \/ Rewrites(r) \/ Decide(r)
  <2>1. CASE Crash(r)
    <3>1. lock' \in {r, lock, Nobody}
      BY <2>1 DEF Crash, Unlocked
    <3> QED BY <2>1, <3>1, DoneFollows DEF Crash, Quiet, TypeOK
  <2> QED BY <1>1, <2>1, DecideQuiet, SyncQuiet, SaveKinds DEF RequestStep, DecideStep
<1> QED BY <1>1, BeginsQuiet DEF Next, Requests

-----------------------------------------------------------------------------
(* Types *)

\* what the three kinds of steps do to the record of every request
LEMMA RecordsFollow ==
    ASSUME TypeOK, NEW r \in Requests, NEW record, Follows(r, record)
    PROVE  /\ Set(r, record) => req' \in [Requests -> Records]
           /\ Shown(r, record) \in [Requests -> Records]
<1>1. record \in Records
  BY DEF Follows
<1>2. ASSUME NEW q \in Requests
      PROVE  [req[q] EXCEPT !.unseen = @ \cup {r}] \in Records
  <2>1. req[q] \in Records
    BY RecordType
  <2> QED BY <2>1 DEF Records
<1> QED BY <1>1, <1>2 DEF Set, Shown, TypeOK

LEMMA AltersType ==
    ASSUME TypeOK, NEW r \in Requests
    PROVE  Alters(r) \in Columns /\ Alters(r).version = req[r].copy.version
<1>1. req[r].copy \in Columns
  BY RecordType DEF Records
<1> HIDE DEF Columns
<1>2. \A c \in Columns : c.version = [c EXCEPT !.status = "DRAFT"].version
  BY DEF Columns
<1> QED BY <1>1 DEF Alters, Columns, Statuses

\* what update() flushes keeps the row's or the copy's version
LEMMA FlushedType ==
    ASSUME TypeOK, NEW r \in Requests
    PROVE  /\ Flushed(r) \in Columns
           /\ Flushed(r).version \in {row.version, req[r].copy.version}
           /\ Flushed(r).there = row.there
<1>1. row \in Columns /\ Alters(r) \in Columns /\ Alters(r).version = req[r].copy.version
  BY AltersType, RecordType
<1>2. DOMAIN row = {"there", "status", "global", "version"}
  BY <1>1 DEF Columns
<1>3. req[r].dirty \subseteq Names
  BY RecordType DEF Records
<1> DEFINE dirty == req[r].dirty
           made == [there |-> row.there,
                    status |-> IF "status" \in dirty THEN Alters(r).status ELSE row.status,
                    global |-> IF "global" \in dirty THEN Alters(r).global ELSE row.global,
                    version |-> IF "version" \in dirty THEN Alters(r).version ELSE row.version]
<1>4. Flushed(r) = made
  BY <1>2, <1>3 DEF Flushed, Names
<1>5. /\ row.there \in BOOLEAN /\ row.status \in Statuses /\ row.global \in BOOLEAN
      /\ row.version \in Nat
      /\ Alters(r).status \in Statuses /\ Alters(r).global \in BOOLEAN
      /\ Alters(r).version \in Nat
  BY <1>1 DEF Columns
<1>6. /\ made.status \in Statuses
      /\ made.version \in Nat /\ made.version \in {row.version, req[r].copy.version}
      /\ made.there = row.there
  BY <1>1, <1>5
<1>7. made.global \in BOOLEAN /\ made.there \in BOOLEAN
  BY <1>5
<1>8. made \in Columns
  BY <1>6, <1>7 DEF Columns
<1> QED BY <1>4, <1>6, <1>8

LEMMA MovedType ==
    ASSUME TypeOK, NEW d \in Decisions
    PROVE  Moved(d) \in Columns /\ Moved(d).version = row.version + 1
<1>1. Transitions(d).to \in Statuses /\ Transitions(d).global \in BOOLEAN
  BY DEF Transitions, Rule, Decisions, Statuses
<1>2. row \in Columns
  BY DEF TypeOK
<1>3. ASSUME NEW c \in Columns, NEW to \in Statuses, NEW global \in BOOLEAN
      PROVE  LET moved == [c EXCEPT !.status = to, !.global = global, !.version = @ + 1]
             IN moved \in Columns /\ moved.version = c.version + 1
  <2>1. c.version + 1 \in Nat
    BY DEF Columns
  <2> QED BY <2>1 DEF Columns
<1> QED BY <1>1, <1>2, <1>3 DEF Moved

\* Row, ledger, requests and index keep their types.
THEOREM ReviewTypeCorrect == Spec => []TypeOK
<1>1. Init => TypeOK
  <2>0. \A status \in Statuses, global \in BOOLEAN :
          Rows(status, global) \in Columns /\ Rows(status, global).global \in BOOLEAN
    BY DEF Rows, Columns
  <2>1. \A start \in Starts : start \in Columns /\ start.global \in BOOLEAN
    BY <2>0 DEF Starts, Statuses
  <2> QED BY <2>1, FreshType DEF Init, TypeOK
<1>2. ASSUME TypeOK, [Next]_vars
      PROVE  TypeOK'
  <2>1. ASSUME NEW r \in Requests, Quiet(r)
        PROVE  TypeOK'
    <3>1. PICK record : Follows(r, record) /\ Set(r, record)
      BY <2>1 DEF Quiet
    <3>2. req' \in [Requests -> Records]
      BY <1>2, <3>1, RecordsFollow
    <3>3. row' \in Columns
      BY <1>2, <2>1 DEF Quiet, TypeOK, Columns
    <3> QED BY <1>2, <2>1, <3>2, <3>3 DEF Quiet, TypeOK
  <2>2. ASSUME NEW r \in Requests, Rewrites(r)
        PROVE  TypeOK'
    <3>1. PICK record : Follows(r, record) /\ Writes(r, record)
      BY <2>2 DEF Rewrites
    <3>2. req' \in [Requests -> Records]
      BY <1>2, <3>1, RecordsFollow DEF Writes
    <3>3. row' \in Columns
      BY <1>2, <3>1, FlushedType DEF Writes
    <3>4. loose' \subseteq {"overwrite", "mixed", "unchecked", "unlisted", "missed"}
      BY <1>2, <3>1 DEF Writes, Slips, TypeOK
    <3> QED BY <1>2, <3>1, <3>2, <3>3, <3>4 DEF Writes, TypeOK
  <2>3. ASSUME NEW r \in Requests, Decide(r)
        PROVE  TypeOK'
    <3>1. req[r] \in Records /\ req[r].at \in Nat /\ req[r].decision \in Decisions
      BY <1>2, <2>3, RecordType DEF Decide, Records, TypeOK, Columns
    <3>2. req' \in [Requests -> Records]
      BY <1>2, <2>3, <3>1, RecordsFollow, DecidedFollows DEF Decide, Records
    <3>3. row' \in Columns
      BY <1>2, <2>3, <3>1, MovedType DEF Decide
    <3>4. ledger' \subseteq Entries
      BY <1>2, <2>3, <3>1 DEF Decide, TypeOK, Entries, Records
    <3> QED BY <1>2, <2>3, <3>2, <3>3, <3>4 DEF Decide, TypeOK
  <2>4. CASE UNCHANGED vars
    BY <1>2, <2>4 DEF vars, TypeOK
  <2> QED BY <1>2, <2>1, <2>2, <2>3, <2>4, Kinds
<1> QED BY <1>1, <1>2, PTL DEF Spec

-----------------------------------------------------------------------------
(* The chain of decisions *)

\* every version before v was left by a decision
Reached(v) == \A u \in 0..(v - 1) : Taken(u)

\* the versions held anywhere, in the row, in a copy or pinned to a decision, are reached
Chain ==
    /\ \A d, e \in ledger : d.from = e.from => d = e
    /\ \A d \in ledger : Reached(d.from)
    /\ Reached(row.version)
    /\ \A r \in Requests : Reached(req[r].copy.version)
    /\ \A r \in Requests : req[r].at # Now => Reached(req[r].at)

\* while nothing was written over a decision the row is ahead of the ledger
Ahead == "overwrite" \notin loose => \A d \in ledger : d.from < row.version

LEMMA ReachedGrows ==
    ASSUME ledger \subseteq ledger', NEW v \in Nat, Reached(v)
    PROVE  Reached(v)'
BY DEF Reached, Taken

LEMMA FollowsReached ==
    ASSUME TypeOK, Chain, ledger \subseteq ledger', NEW r \in Requests, NEW record,
           Follows(r, record)
    PROVE  Reached(record.copy.version)' /\ (record.at # Now => Reached(record.at)')
<1>1. record.copy.version \in Nat /\ (record.at # Now => record.at \in Nat)
  BY DEF Follows, Records, Columns
<1>2. Fresh.copy.version = 0 /\ Reached(0)
  BY DEF Fresh, Rows, Reached
<1>3. Reached(record.copy.version)
  BY <1>2 DEF Follows, Chain
<1>4. record.at # Now => Reached(record.at)
  BY DEF Follows, Chain
<1> QED BY <1>1, <1>3, <1>4, ReachedGrows

LEMMA ChainStep ==
    ASSUME TypeOK, Chain, NEW r \in Requests, NEW record, Follows(r, record),
           ledger \subseteq ledger',
           req' = [req EXCEPT ![r] = record] \/ req' = Shown(r, record)
    PROVE  /\ \A q \in Requests : Reached(req[q].copy.version)'
           /\ \A q \in Requests : (req[q].at # Now => Reached(req[q].at))'
<1>1. Reached(record.copy.version)' /\ (record.at # Now => Reached(record.at)')
  BY FollowsReached
<1>2. ASSUME NEW q \in Requests, q # r
      PROVE  req'[q].copy = req[q].copy /\ req'[q].at = req[q].at
  BY <1>2 DEF Shown, TypeOK, Records
<1>3. req'[r] = record
  BY DEF Shown, TypeOK
<1>4. ASSUME NEW q \in Requests
      PROVE  /\ req[q].copy.version \in Nat
             /\ req[q].at # Now => req[q].at \in Nat
  BY DEF TypeOK, Records, Columns
<1>5. ASSUME NEW q \in Requests
      PROVE  Reached(req[q].copy.version)' /\ (req[q].at # Now => Reached(req[q].at))'
  <2>1. CASE q = r
    BY <1>1, <1>3, <2>1 DEF Reached, Taken
  <2>2. CASE q # r
    <3>1. Reached(req[q].copy.version) /\ (req[q].at # Now => Reached(req[q].at))
      BY DEF Chain
    <3> QED BY <1>2, <1>4, <2>2, <3>1 DEF Reached, Taken
  <2> QED BY <2>1, <2>2
<1> QED BY <1>5

LEMMA ChainAlways == Spec => [](Chain /\ Ahead)
<1>1. Init => Chain /\ Ahead
  <2>1. Fresh.copy.version = 0 /\ Fresh.at = Now /\ \A start \in Starts : start.version = 0
    BY DEF Fresh, Rows, Starts
  <2> QED BY <2>1 DEF Init, Chain, Ahead, Reached
<1>2. ASSUME TypeOK, Chain, Ahead, [Next]_vars
      PROVE  (Chain /\ Ahead)'
  <2>0. row.version \in Nat /\ \A d \in ledger : d.from \in Nat
    BY <1>2 DEF TypeOK, Columns, Entries
  <2>1. ASSUME NEW r \in Requests, Quiet(r)
        PROVE  (Chain /\ Ahead)'
    <3>1. PICK record : Follows(r, record) /\ Set(r, record)
      BY <2>1 DEF Quiet
    <3>2. row'.version = row.version /\ ledger' = ledger
      BY <1>2, <2>1 DEF Quiet, TypeOK, Columns
    <3>3. /\ \A q \in Requests : Reached(req[q].copy.version)'
          /\ \A q \in Requests : (req[q].at # Now => Reached(req[q].at))'
      BY <1>2, <3>1, <3>2, ChainStep DEF Set
    <3>4. Chain'
      BY <1>2, <3>2, <3>3 DEF Chain, Reached, Taken
    <3>5. Ahead'
      BY <1>2, <2>1, <3>2 DEF Ahead, Quiet
    <3> QED BY <3>4, <3>5
  <2>2. ASSUME NEW r \in Requests, Rewrites(r)
        PROVE  (Chain /\ Ahead)'
    <3>1. PICK record : Follows(r, record) /\ Writes(r, record)
      BY <2>2 DEF Rewrites
    <3>2. row'.version \in {row.version, req[r].copy.version} /\ ledger' = ledger
      BY <1>2, <3>1, FlushedType DEF Writes
    <3>3. /\ \A q \in Requests : Reached(req[q].copy.version)'
          /\ \A q \in Requests : (req[q].at # Now => Reached(req[q].at))'
      BY <1>2, <3>1, <3>2, ChainStep DEF Writes
    <3>4. Chain'
      BY <1>2, <3>2, <3>3 DEF Chain, Reached, Taken
    <3>5. ASSUME "overwrite" \notin loose'
          PROVE  "overwrite" \notin loose /\ (req[r].copy = row \/ row' = row)
      BY <3>1, <3>5 DEF Writes, Slips
    <3>6. Ahead'
      BY <1>2, <3>2, <3>5 DEF Ahead
    <3> QED BY <3>4, <3>6
  <2>3. ASSUME NEW r \in Requests, Decide(r)
        PROVE  (Chain /\ Ahead)'
    <3>1. row.version = req[r].at /\ ~Taken(req[r].at) /\ req[r].decision \in Decisions
      BY <1>2, <2>3 DEF Decide, TypeOK, Records
    <3>2. row'.version = row.version + 1
      BY <1>2, <2>3, <3>1, MovedType DEF Decide
    <3>3. PICK entry : entry.from = row.version /\ ledger' = ledger \cup {entry}
      BY <2>3, <3>1 DEF Decide
    <3>4. req[r].public \in BOOLEAN
      BY <1>2 DEF TypeOK, Records
    <3>5. /\ \A q \in Requests : Reached(req[q].copy.version)'
          /\ \A q \in Requests : (req[q].at # Now => Reached(req[q].at))'
      BY <1>2, <2>3, <3>3, <3>4, DecidedFollows, ChainStep DEF Decide, Set
    <3>6. Reached(row.version)' /\ \A d \in ledger' : Reached(d.from)'
      <4>1. \A v \in Nat : Reached(v) => Reached(v)'
        BY <3>3 DEF Reached, Taken
      <4>2. \A u \in 0..(row.version - 1) : Taken(u)'
        BY <1>2, <3>3 DEF Chain, Reached, Taken
      <4>3. \A u : u = row.version => Taken(u)'
        BY <3>3 DEF Taken
      <4>4. \A u \in 0..(row'.version - 1) : Taken(u)'
        BY <2>0, <3>2, <4>2, <4>3
      <4>5. \A d \in ledger' : \A u \in 0..(d.from - 1) : Taken(u)'
        BY <1>2, <3>3, <4>2 DEF Chain, Reached, Taken
      <4> QED BY <4>4, <4>5 DEF Reached, Taken
    <3>7. \A d, e \in ledger' : d.from = e.from => d = e
      BY <1>2, <3>1, <3>3 DEF Chain, Taken
    <3>8. Chain'
      BY <3>5, <3>6, <3>7 DEF Chain
    <3>9. Ahead'
      BY <1>2, <2>0, <2>3, <3>2, <3>3 DEF Ahead, Decide
    <3> QED BY <3>8, <3>9
  <2>4. CASE UNCHANGED vars
    BY <1>2, <2>4 DEF vars, Chain, Ahead, Reached, Taken
  <2> QED BY <1>2, <2>1, <2>2, <2>3, <2>4, Kinds
<1> QED BY <1>1, <1>2, ReviewTypeCorrect, PTL DEF Spec

\* Two decisions are never taken from one version and none is skipped, whatever copies are
\* written back, for all requests; and while none was written over a decision, the next one
\* is still possible.
THEOREM LedgerIsAlwaysAChain == Spec => []LedgerIsAChain
<1>1. TypeOK /\ Chain /\ Ahead => LedgerIsAChain
  BY DEF Chain, Ahead, LedgerIsAChain, Reached, Taken, TypeOK, Entries, Columns
<1> QED BY <1>1, ReviewTypeCorrect, ChainAlways, PTL

-----------------------------------------------------------------------------
(* Reviews of content that has changed *)

\* a request decides at most once; whatever it saved unseen by a review, it decides from no
\* earlier version than the one the review is pinned to, and from a later one than the
\* review's decision
Later ==
    /\ \A r \in Requests : r \notin req[r].unseen
    /\ \A r \in Requests : req[r].unseen # {} => req[r].at # Now
    /\ \A r \in Requests : Undecided(req[r]) => \A d \in ledger : d.request # r
    /\ \A q \in Requests : \A r \in req[q].unseen :
         \A e \in ledger : e.request = r => req[q].at <= e.from
    /\ \A d \in ledger : \A r \in d.unseen :
         \A e \in ledger : e.request = r => d.from < e.from

\* a decision is taken from a version that no decision was taken from yet
LEMMA FreeIsUnreached ==
    ASSUME NEW v \in Nat, NEW u \in Nat, Reached(v), ~Taken(u)
    PROVE  v <= u
BY DEF Reached

LEMMA LaterAlways == Spec => []Later
<1>1. Init => Later
  BY DEF Init, Later, Fresh
<1>2. ASSUME TypeOK, Chain, Later, [Next]_vars
      PROVE  Later'
  <2>1. ASSUME NEW r \in Requests, Quiet(r)
        PROVE  Later'
    <3>1. PICK record : Follows(r, record) /\ Set(r, record)
      BY <2>1 DEF Quiet
    <3>2. /\ ledger' = ledger
          /\ req'[r] = record
          /\ \A q \in Requests : q # r => req'[q] = req[q]
      BY <1>2, <2>1, <3>1 DEF Quiet, Set, TypeOK
    <3>3. /\ record.unseen # {} => record.unseen = req[r].unseen /\ record.at = req[r].at
          /\ Undecided(record) => Undecided(req[r])
      BY <1>2, <3>1 DEF Follows, Later
    <3> QED BY <1>2, <3>2, <3>3 DEF Later
  <2>2. ASSUME NEW r \in Requests, Rewrites(r)
        PROVE  Later'
    <3>1. PICK record : Follows(r, record) /\ Writes(r, record)
      BY <2>2 DEF Rewrites
    <3>2. /\ ledger' = ledger
          /\ req'[r] = record
          /\ \A q \in Requests \ {r} :
               /\ req'[q].at = req[q].at
               /\ Undecided(req'[q]) => Undecided(req[q])
               /\ \/ req'[q].unseen = req[q].unseen
                  \/ req'[q].unseen = req[q].unseen \cup {r} /\ req[q].at # Now
      BY <1>2, <3>1 DEF Writes, Shown, Fixed, TypeOK, Records, Undecided
    <3>3. /\ record.unseen # {} => record.unseen = req[r].unseen /\ record.at = req[r].at
          /\ Undecided(record) => Undecided(req[r])
      BY <1>2, <3>1 DEF Follows, Later
    <3>4. \A e \in ledger : e.request # r
      BY <1>2, <2>2 DEF Rewrites, Later
    <3>5. ASSUME NEW q \in Requests
          PROVE  /\ q \notin req'[q].unseen
                 /\ req'[q].unseen # {} => req'[q].at # Now
                 /\ Undecided(req'[q]) => Undecided(req[q])
                 /\ \A x \in req'[q].unseen :
                      \A e \in ledger : e.request = x => req'[q].at <= e.from
      <4>1. CASE q = r
        BY <1>2, <3>2, <3>3, <4>1 DEF Later
      <4>2. CASE q # r
        BY <1>2, <3>2, <3>4, <4>2 DEF Later
      <4> QED BY <4>1, <4>2
    <3> QED BY <1>2, <3>2, <3>5 DEF Later
  <2>3. ASSUME NEW r \in Requests, Decide(r)
        PROVE  Later'
    <3>1. PICK entry : /\ entry.from = req[r].at
                       /\ entry.request = r
                       /\ entry.unseen = req[r].unseen
                       /\ ledger' = ledger \cup {entry}
      BY <2>3 DEF Decide
    <3>2. ~Taken(req[r].at) /\ req[r].at \in Nat
      BY <1>2, <2>3 DEF Decide, TypeOK, Columns
    <3>3. /\ req'[r].unseen = {}
          /\ ~Undecided(req'[r])
          /\ \A q \in Requests : q # r => req'[q] = req[q]
      BY <1>2, <2>3 DEF Decide, Set, Decided, Syncs, Done, Fresh, Undecided, TypeOK
    <3>4. \A e \in ledger : e.from # req[r].at
      BY <3>2 DEF Taken
    <3>5. ASSUME NEW q \in Requests, r \in req[q].unseen
          PROVE  req[q].at <= req[r].at
      <4>1. req[q].at \in Nat /\ Reached(req[q].at)
        BY <1>2, <3>5 DEF Later, Chain, TypeOK, Records
      <4> QED BY <3>2, <4>1, FreeIsUnreached
    <3>7. ASSUME NEW d \in ledger
          PROVE  d.from < req[r].at
      <4>1. d.from \in Nat /\ Reached(d.from)
        BY <1>2 DEF Chain, TypeOK, Entries
      <4>2. d.from <= req[r].at
        BY <3>2, <4>1, FreeIsUnreached
      <4> QED BY <3>2, <3>4, <4>1, <4>2
    <3>8. \A q \in Requests : \A x \in req'[q].unseen :
            \A e \in ledger' : e.request = x => req'[q].at <= e.from
      BY <1>2, <3>1, <3>3, <3>5 DEF Later
    <3>9. \A d \in ledger' : \A x \in d.unseen :
            \A e \in ledger' : e.request = x => d.from < e.from
      <4>1. ASSUME NEW x \in req[r].unseen, NEW e \in ledger, e.request = x
            PROVE  req[r].at < e.from
        <5>1. req[r].at <= e.from
          BY <1>2, <4>1 DEF Later
        <5> QED BY <1>2, <3>2, <3>4, <5>1 DEF TypeOK, Entries
      <4> QED BY <1>2, <3>1, <3>7, <4>1 DEF Later
    <3> QED BY <1>2, <3>1, <3>3, <3>8, <3>9 DEF Later
  <2>4. CASE UNCHANGED vars
    BY <1>2, <2>4 DEF vars, Later
  <2> QED BY <1>2, <2>1, <2>2, <2>3, <2>4, Kinds
<1> QED BY <1>1, <1>2, ReviewTypeCorrect, ChainAlways, PTL DEF Spec

\* A reviewer's decision never covers an edit that was saved after the reviewer fixed the
\* version and sent back into review before the decision took effect, for all requests.
THEOREM StaleReviewsAlwaysConflict == Spec => []StaleReviewsConflict
<1>1. Later => StaleReviewsConflict
  BY DEF Later, StaleReviewsConflict
<1> QED BY <1>1, LaterAlways, PTL

-----------------------------------------------------------------------------
(* What is public *)

Approved(columns) ==
    columns.global =>
        columns.status = "APPROVED" \/ (columns.status = "DRAFT" /\ columns.version = 0)

\* the row and every copy of it are public only if they are approved
ApprovedCopies ==
    {"unchecked", "mixed"} \cap loose = {} =>
        Approved(row) /\ \A r \in Requests : Approved(req[r].copy)

LEMMA AltersApproved ==
    ASSUME TypeOK, NEW r \in Requests, Approved(req[r].copy), "unchecked" \notin Slips(r)
    PROVE  Approved(Alters(r))
<1>1. req[r].copy \in Columns
  BY RecordType DEF Records
<1>2. req[r].plan = "subShow" => req[r].copy.status = "APPROVED"
  BY DEF Slips
<1> QED BY <1>1, <1>2 DEF Alters, Approved, Columns

LEMMA MovedApproved ==
    ASSUME TypeOK, NEW d \in Decisions
    PROVE  Approved(Moved(d))
<1>1. Transitions(d).global => Transitions(d).to = "APPROVED"
  BY DEF Transitions, Rule, Decisions
<1>2. ASSUME NEW c \in Columns, NEW to, NEW global
      PROVE  LET moved == [c EXCEPT !.status = to, !.global = global, !.version = @ + 1]
             IN moved.status = to /\ moved.global = global
  BY DEF Columns
<1>3. Moved(d).status = Transitions(d).to /\ Moved(d).global = Transitions(d).global
  BY <1>2 DEF Moved, TypeOK
<1> QED BY <1>1, <1>3 DEF Approved

LEMMA ApprovedAlways == Spec => []ApprovedCopies
<1>1. Init => ApprovedCopies
  BY DEF Init, ApprovedCopies, Approved, Starts, Rows, Fresh
<1>2. ASSUME TypeOK, ApprovedCopies, [Next]_vars
      PROVE  ApprovedCopies'
  <2>1. ASSUME NEW r \in Requests, NEW record, Follows(r, record), {"unchecked", "mixed"} \cap loose = {}
        PROVE  Approved(record.copy)
    BY <1>2, <2>1 DEF Follows, ApprovedCopies, Approved, Fresh, Rows
  <2>2. ASSUME NEW r \in Requests, Quiet(r)
        PROVE  ApprovedCopies'
    <3>1. PICK record : Follows(r, record) /\ Set(r, record)
      BY <2>2 DEF Quiet
    <3>2. Approved(row) => Approved(row')
      BY <1>2, <2>2 DEF Quiet, Approved, TypeOK, Columns
    <3>3. \A q \in Requests : req'[q].copy = IF q = r THEN record.copy ELSE req[q].copy
      BY <1>2, <3>1 DEF Set, TypeOK
    <3> QED BY <1>2, <2>1, <2>2, <3>1, <3>2, <3>3 DEF Quiet, ApprovedCopies, Approved
  <2>3. ASSUME NEW r \in Requests, Rewrites(r)
        PROVE  ApprovedCopies'
    <3>1. PICK record : Follows(r, record) /\ Writes(r, record)
      BY <2>3 DEF Rewrites
    <3>2. ASSUME {"unchecked", "mixed"} \cap loose' = {}
          PROVE  {"unchecked", "mixed"} \cap loose = {} /\ Approved(row')
      <4>1. "unchecked" \notin Slips(r) /\ "mixed" \notin Slips(r)
        BY <3>1, <3>2 DEF Writes
      <4>2. {"unchecked", "mixed"} \cap loose = {}
        BY <3>1, <3>2 DEF Writes
      <4>3. row' = row \/ row' = Alters(r)
        BY <3>1, <4>1 DEF Writes, Slips
      <4>4. Approved(row) /\ Approved(Alters(r))
        BY <1>2, <4>1, <4>2, AltersApproved DEF ApprovedCopies
      <4> QED BY <4>2, <4>3, <4>4 DEF Approved
    <3>3. \A q \in Requests : req'[q].copy = IF q = r THEN record.copy ELSE req[q].copy
      BY <1>2, <3>1 DEF Writes, Shown, TypeOK, Records
    <3> QED BY <1>2, <2>1, <3>1, <3>2, <3>3 DEF ApprovedCopies, Approved
  <2>4. ASSUME NEW r \in Requests, Decide(r)
        PROVE  ApprovedCopies'
    <3>1. Approved(row') /\ loose' = loose
      BY <1>2, <2>4, MovedApproved DEF Decide, TypeOK, Records
    <3>2. Follows(r, Decided(r, req[r].public))
      BY <1>2, DecidedFollows DEF TypeOK, Records
    <3>3. \A q \in Requests :
            req'[q].copy = IF q = r THEN Decided(r, req[r].public).copy ELSE req[q].copy
      BY <1>2, <2>4 DEF Decide, Set, TypeOK
    <3> QED BY <1>2, <2>1, <3>1, <3>2, <3>3 DEF ApprovedCopies, Approved
  <2>5. CASE UNCHANGED vars
    BY <1>2, <2>5 DEF vars, ApprovedCopies, Approved
  <2> QED BY <1>2, <2>2, <2>3, <2>4, <2>5, Kinds
<1> QED BY <1>1, <1>2, ReviewTypeCorrect, PTL DEF Spec

\* Whatever is written back, only approved assistants are public, or drafts that were public
\* before there were reviews, unless a parent's publish showed an assistant unchecked or a
\* save met a decision committed after it had read the row.
THEOREM OnlyApprovedArePublic == Spec => []PublicOnlyApproved
<1>1. ApprovedCopies => PublicOnlyApproved
  BY DEF ApprovedCopies, Approved, PublicOnlyApproved
<1> QED BY <1>1, ApprovedAlways, PTL

-----------------------------------------------------------------------------
(* The index *)

Public(columns) == columns.there /\ columns.global
RightFact == IF Public(row) THEN "index" ELSE "remove"
Owed == \E r \in Requests : req[r].step = "sync"
Corrects == \E r \in Requests : req[r].step = "apply" /\ req[r].fact = RightFact

\* an index write holds the lock; and whenever the index is or may become wrong, a write
\* that will put it right is owed or under way
Converges ==
    /\ \A r \in Requests : req[r].step = "apply" =>
         lock = r /\ req[r].fact \in {"index", "remove"}
    /\ \/ Owed
       \/ Corrects
       \/ (indexed <=> Public(row)) /\ \A r \in Requests : req[r].step # "apply"

\* a submission that read a private row will not be taken of a public one
Hidden(record) ==
    /\ record.step \in {"lookup", "cas"} /\ record.decision = "SUBMIT" /\ ~record.public
    /\ record.at = row.version /\ Public(row)
    => row.status \notin Submittable

Indexing == loose = {} => Converges /\ \A r \in Requests : Hidden(req[r])

\* what a step does to the row, for a submission that is under way
Moves ==
    \/ row' = row
    \/ ~row'.there
    \/ row'.version = row.version + 1
    \/ /\ row'.version = row.version
       /\ row'.global => \/ row'.status = "APPROVED"
                         \/ Public(row) /\ row'.status = row.status

\* a step that writes nothing to the index, and owes it a write if it shows or hides the row
Owes(r) ==
    /\ req[r].step \notin {"sync", "apply"}
    /\ \E record :
        /\ req' = [req EXCEPT ![r] = record] \/ req' = Shown(r, record)
        /\ record.step # "apply"
        /\ (Public(row') <=> Public(row)) \/ record.step = "sync"
        /\ record.step \in {"lookup", "cas"} =>
             /\ row' = row
             /\ \/ record.public = row.global
                \/ /\ req[r].step = "lookup"
                   /\ record.decision = req[r].decision
                   /\ record.public = req[r].public
                   /\ record.at = req[r].at
    /\ indexed' = indexed /\ lock' = lock
    /\ Moves

LEMMA CallsOwe ==
    ASSUME NEW r, NEW plan, NEW d, NEW at
    PROVE  Calls(plan, d, at).step = "read"
BY DEF Calls, Fresh

LEMMA SyncsOwe == ASSUME NEW r, NEW task PROVE Syncs(r, task).step = "sync"
BY DEF Syncs, Fresh

LEMMA DoneOwes == Done.step = "done"
BY DEF Done, Fresh

LEMMA BeginsOwe ==
    ASSUME TypeOK, NEW r \in Requests, BeginReview(r) \/ OwnerBegins(r)
    PROVE  Owes(r)
<1>1. CASE BeginReview(r)
  BY <1>1, CallsOwe DEF BeginReview, Owes, At, Set, Moves
<1>2. CASE BeginUnpublish(r)
  BY <1>2, CallsOwe DEF BeginUnpublish, Owes, At, Set, Moves
<1>3. ASSUME NEW plan \in Plans, NEW step \in {"delete", "refresh", "write"}, Loads(r, plan, step)
      PROVE  Owes(r)
  <2>1. [req[r] EXCEPT !.plan = plan, !.step = step, !.copy = row].step = step
    BY RecordType DEF Records
  <2> QED BY <1>3, <2>1 DEF Loads, Owes, At, Set, Moves
<1>4. CASE BeginDelete(r) \/ BeginRollback(r) \/ BeginSkill(r) \/ BeginPublish(r) \/ BeginSubPublish(r)
  BY <1>3, <1>4 DEF BeginDelete, BeginRollback, BeginSkill, BeginPublish, BeginSubPublish,
                    Plans
<1>5. CASE BeginEdit(r)
  <2>1. PICK changes \in BOOLEAN, armed \in BOOLEAN :
          Set(r, [req[r] EXCEPT
                    !.plan = "edit", !.step = "refresh", !.copy = row,
                    !.changes = changes, !.public = row.global,
                    !.review = /\ changes
                               /\ \/ row.status = "PENDING_REVIEW"
                                  \/ row.status = "APPROVED" /\ armed])
    BY <1>5 DEF BeginEdit
  <2> DEFINE review == /\ changes
                       /\ \/ row.status = "PENDING_REVIEW"
                          \/ row.status = "APPROVED" /\ armed
             record == [req[r] EXCEPT
                          !.plan = "edit", !.step = "refresh", !.copy = row,
                          !.changes = changes, !.public = row.global, !.review = review]
  <2>2. req' = [req EXCEPT ![r] = record]
    BY <2>1 DEF Set
  <2>3. req[r] \in Records
    BY RecordType
  <2> HIDE DEF review
  <2>4. record.step = "refresh"
    BY <2>3 DEF Records
  <2> HIDE DEF record
  <2> QED BY <1>5, <2>2, <2>4 DEF BeginEdit, Owes, At, Moves
<1> QED BY <1>1, <1>2, <1>4, <1>5 DEF OwnerBegins

LEMMA DecideOwes ==
    ASSUME TypeOK, Indexing, loose = {}, NEW r \in Requests, DecideStep(r)
    PROVE  Owes(r)
<1>1. CASE Read(r)
  <2> DEFINE record == [req[r] EXCEPT !.step = "lookup", !.at = Observed(r), !.public = row.global]
  <2>1. record.step = "lookup" /\ record.public = row.global
    BY RecordType DEF Records
  <2> HIDE DEF record
  <2>2. req' = [req EXCEPT ![r] = record] \/ req' = [req EXCEPT ![r] = Done]
    BY <1>1 DEF Read, Set, record
  <2> QED BY <1>1, <2>1, <2>2, DoneOwes DEF Read, Owes, At, Moves
<1>2. CASE Lookup(r)
  <2> DEFINE record == [req[r] EXCEPT !.step = "cas"]
  <2>1. /\ record.step = "cas" /\ record.decision = req[r].decision
        /\ record.public = req[r].public /\ record.at = req[r].at
    BY RecordType DEF Records
  <2> HIDE DEF record
  <2>2. req' = [req EXCEPT ![r] = record] \/ req' = [req EXCEPT ![r] = Decided(r, TRUE)]
    BY <1>2 DEF Lookup, Go, Set, record
  <2>3. Decided(r, TRUE).step \in {"sync", "done"}
    BY SyncsOwe, DoneOwes DEF Decided
  <2> QED BY <1>2, <2>1, <2>2, <2>3 DEF Lookup, Owes, At, Moves
<1>3. CASE GateBlocks(r) \/ Conflict(r)
  BY <1>3, DoneOwes DEF GateBlocks, Conflict, Set, Owes, At, Moves
<1>4. CASE Decide(r)
  <2> DEFINE d == req[r].decision
             record == Decided(r, req[r].public)
  <2>1. d \in Decisions
    BY DEF TypeOK, Records
  <2>2. record.step = "sync" \/ (record.step = "done" /\ d = "SUBMIT" /\ ~req[r].public)
    BY SyncsOwe, DoneOwes DEF Decided, Touches
  <2>3. row' = Moved(d) /\ row'.version = row.version + 1
    BY <1>4, <2>1, MovedType DEF Decide
  <2>4. ASSUME d = "SUBMIT", ~req[r].public
        PROVE  (Public(row') <=> Public(row))
    <3>1. row.status \in Submittable /\ req[r].step = "cas" /\ req[r].at = row.version
      BY <1>4, <2>4 DEF Decide, Allowed, Transitions, Rule, At
    <3>2. ~Public(row)
      BY <2>4, <3>1 DEF Indexing, Hidden
    <3>3. ~Transitions(d).global
      BY <2>4 DEF Transitions, Rule
    <3>4. Moved(d).global = Transitions(d).global
      BY DEF Moved, TypeOK, Columns
    <3> QED BY <2>3, <3>2, <3>3, <3>4 DEF Public
  <2> QED BY <1>4, <2>2, <2>3, <2>4 DEF Decide, Set, Owes, At, Moves
<1> QED BY <1>1, <1>2, <1>3, <1>4 DEF DecideStep

\* a copy written over an equal row, without a change of visibility past the index
LEMMA WritesMove ==
    ASSUME TypeOK, NEW r \in Requests, NEW record, Writes(r, record), loose' = {}
    PROVE  /\ Moves
           /\ req[r].plan # "open" => (Public(row') <=> Public(row))
<1>0. row' = row \/ (row' = Alters(r) /\ row = req[r].copy)
  BY DEF Writes, Slips
<1>13. CASE row' = row
  BY <1>13 DEF Moves, Public
<1> SUFFICES ASSUME row' = Alters(r), row = req[r].copy
    PROVE  /\ Moves
           /\ req[r].plan # "open" => (Public(row') <=> Public(row))
  BY <1>0, <1>13
<1>1. row = req[r].copy /\ row.there /\ row \in Columns
  BY RecordType DEF Writes, Slips
<1>2. req[r].plan \in {"subOpen", "subShow", "subHide"} => Alters(r).global = row.global
  <2>1. "unlisted" \notin Slips(r)
    BY DEF Writes
  <2> QED BY <2>1 DEF Writes, Slips
<1>3. /\ Alters(r).there /\ Alters(r).version = row.version
      /\ req[r].plan \notin {"open", "subOpen", "subShow", "subHide"} =>
           Alters(r).global = row.global
  BY <1>1 DEF Alters, Columns
<1>4. Alters(r).global =>
        \/ Alters(r).status = "APPROVED"
        \/ Public(row) /\ Alters(r).status = row.status
  <2>1. CASE req[r].plan \in {"open", "subOpen"}
    <3>1. Alters(r) = [req[r].copy EXCEPT !.status = "APPROVED", !.global = TRUE]
      BY <2>1 DEF Alters
    <3>2. [req[r].copy EXCEPT !.status = "APPROVED", !.global = TRUE].status = "APPROVED"
      BY <1>1 DEF Columns
    <3>3. Alters(r).status = "APPROVED"
      BY <3>1, <3>2, Zenon
    <3> QED BY <3>3
  <2>2. CASE req[r].plan = "submit"
    BY <1>1, <2>2 DEF Alters, Columns, Public
  <2>3. CASE req[r].plan = "subShow"
    BY <1>1, <1>2, <2>3 DEF Alters, Columns, Public
  <2>4. CASE req[r].plan \notin {"open", "subOpen", "submit", "subShow"}
    BY <1>1, <2>4 DEF Alters, Columns, Public
  <2> QED BY <2>1, <2>2, <2>3, <2>4
<1> QED BY <1>1, <1>2, <1>3, <1>4 DEF Writes, Moves, Public

LEMMA SavesOwe ==
    ASSUME TypeOK, loose' = {}, NEW r \in Requests, SaveStep(r)
    PROVE  Owes(r)
<1>1. CASE Refresh(r)
  <2> DEFINE next == IF req[r].step = "refresh" THEN "write" ELSE "rewrite"
             record == [req[r] EXCEPT !.copy = Refreshed(r), !.step = next]
  <2>1. req' = [req EXCEPT ![r] = record]
    BY <1>1, RecordType DEF Refresh, Set, Records
  <2>2. req[r] \in Records
    BY RecordType
  <2>3. record.step = next
    BY <2>2 DEF Records
  <2> HIDE DEF record
  <2> QED BY <1>1, <2>1, <2>3 DEF Refresh, Owes, Moves
<1>2. ASSUME NEW record, Writes(r, record), req[r].step \in {"write", "resave", "rewrite"},
             record.step \notin {"apply", "lookup", "cas"},
             req[r].plan = "open" => record.step = "sync"
      PROVE  Owes(r)
  BY <1>2, WritesMove DEF Writes, Owes
<1>12. CASE Get(r)
  <2> DEFINE dirty == {c \in Names : Alters(r)[c] # row[c]}
             record == [req[r] EXCEPT !.got = TRUE, !.dirty = dirty]
  <2>1. record.step = req[r].step
    BY RecordType DEF Records
  <2>2. req' = [req EXCEPT ![r] = record]
    BY <1>12 DEF Get, Set
  <2> HIDE DEF record
  <2> QED BY <1>12, <2>1, <2>2 DEF Get, Owes, Moves
<1>3. CASE SaveEdit(r)
  <2>1. PICK next \in {"resave", "filter", "close"} :
          Writes(r, [req[r] EXCEPT !.step = next, !.got = FALSE, !.dirty = {}])
    BY <1>3 DEF SaveEdit
  <2>2. [req[r] EXCEPT !.step = next, !.got = FALSE, !.dirty = {}].step = next
    BY RecordType DEF Records
  <2> QED BY <1>2, <1>3, <2>1, <2>2 DEF SaveEdit
<1>4. CASE CloseEdit(r)
  BY <1>4, CallsOwe, SyncsOwe, DoneOwes DEF CloseEdit, At, Set, Owes, Moves
<1>5. CASE SaveSkill(r)
  BY <1>2, <1>5, DoneOwes DEF SaveSkill, At
<1>6. CASE SaveRollback(r)
  BY <1>2, <1>6, CallsOwe, DoneOwes DEF SaveRollback, At
<1>7. CASE SaveSubmit(r)
  BY <1>2, <1>7, CallsOwe DEF SaveSubmit, At
<1>8. CASE SaveForce(r)
  BY <1>2, <1>8, CallsOwe, SyncsOwe DEF SaveForce, At
<1>9. CASE SaveDirect(r)
  BY <1>2, <1>9, SyncsOwe, DoneOwes DEF SaveDirect, At
<1>10. CASE WriteFails(r)
  BY <1>10, DoneOwes DEF WriteFails, Set, Owes, Moves
<1>11. CASE Delete(r)
  <2>1. row'.there = FALSE
    BY <1>11 DEF Delete, TypeOK, Columns
  <2>2. PICK record : /\ req' = [req EXCEPT ![r] = record]
                      /\ record.step = IF req[r].copy.global THEN "sync" ELSE "done"
    BY <1>11, SyncsOwe, DoneOwes DEF Delete, Set
  <2>3. Public(row) => req[r].copy.global
    BY <1>11 DEF Delete, Public
  <2>4. req[r].copy.global \in BOOLEAN
    BY RecordType DEF Records, Columns
  <2> QED BY <1>11, <2>1, <2>2, <2>3, <2>4 DEF Delete, At, Owes, Moves, Public
<1> QED BY <1>1, <1>3, <1>4, <1>5, <1>6, <1>7, <1>8, <1>9, <1>10, <1>11, <1>12 DEF SaveStep

\* every step owes, reads or writes
LEMMA IndexKinds ==
    ASSUME TypeOK, Indexing, Next, loose' = {}
    PROVE  \E r \in Requests : Owes(r) \/ SyncReads(r) \/ SyncWrites(r)
<1>1. loose = {}
  <2>1. ASSUME NEW r \in Requests, Quiet(r) \/ Rewrites(r) \/ Decide(r)
        PROVE  loose \subseteq loose'
    BY <2>1 DEF Quiet, Rewrites, Writes, Decide
  <2> QED BY <2>1, Kinds
<1>2. ASSUME NEW r \in Requests, RequestStep(r)
      PROVE  Owes(r) \/ SyncReads(r) \/ SyncWrites(r)
  BY <1>1, <1>2, DecideOwes, SavesOwe DEF RequestStep, SyncStep, SyncUnread, Crash
<1> QED BY <1>2, BeginsOwe DEF Next, Requests

LEMMA IndexingAlways == Spec => []Indexing
<1>1. Init => Indexing
  <2>1. \A start \in Starts : start.there = TRUE
    BY DEF Starts, Rows
  <2>2. Fresh.step = "new"
    BY DEF Fresh
  <2> QED BY <2>1, <2>2 DEF Init, Indexing, Converges, Hidden, Public
<1>2. ASSUME TypeOK, TypeOK', Chain, Ahead, Indexing, Next, loose' = {}
      PROVE  Converges' /\ \A r \in Requests : Hidden(req[r])'
  <2>1. loose = {}
    <3>1. ASSUME NEW r \in Requests, Quiet(r) \/ Rewrites(r) \/ Decide(r)
          PROVE  loose \subseteq loose'
      BY <3>1 DEF Quiet, Rewrites, Writes, Decide
    <3> QED BY <1>2, <3>1, Kinds
  <2>2. Converges /\ \A r \in Requests : Hidden(req[r])
    BY <1>2, <2>1 DEF Indexing
  <2>3. ASSUME NEW r \in Requests, req[r].at # Now
        PROVE  req[r].at \in Nat /\ req[r].at <= row.version
    <3>1. req[r].at \in Nat /\ row.version \in Nat /\ Reached(req[r].at)
      BY <1>2, <2>3 DEF TypeOK, Records, Columns, Chain
    <3>2. ~Taken(row.version)
      BY <1>2, <2>1 DEF Ahead, Taken, TypeOK, Columns, Entries
    <3> QED BY <3>1, <3>2, FreeIsUnreached
  <2>4. ASSUME NEW r \in Requests, Owes(r)
        PROVE  Converges' /\ \A q \in Requests : Hidden(req[q])'
    <3>1. PICK record :
            /\ req' = [req EXCEPT ![r] = record] \/ req' = Shown(r, record)
            /\ record.step # "apply"
            /\ (Public(row') <=> Public(row)) \/ record.step = "sync"
            /\ record.step \in {"lookup", "cas"} =>
                 /\ row' = row
                 /\ \/ record.public = row.global
                    \/ /\ req[r].step = "lookup"
                       /\ record.decision = req[r].decision
                       /\ record.public = req[r].public
                       /\ record.at = req[r].at
      BY <2>4 DEF Owes
    <3>2. /\ req'[r] = record
          /\ \A q \in Requests \ {r} :
               /\ req'[q].step = req[q].step
               /\ req'[q].fact = req[q].fact
               /\ req'[q].decision = req[q].decision
               /\ req'[q].public = req[q].public
               /\ req'[q].at = req[q].at
      BY <1>2, <3>1 DEF Shown, TypeOK, Records
    <3>3. req[r].step \notin {"sync", "apply"} /\ indexed' = indexed /\ lock' = lock
      BY <2>4 DEF Owes
    <3>4. ASSUME NEW q \in Requests, req'[q].step = "apply"
          PROVE  /\ req[q].step = "apply"
                 /\ lock' = q /\ req'[q].fact \in {"index", "remove"}
      BY <2>2, <3>1, <3>2, <3>3, <3>4 DEF Converges
    <3>5. ASSUME record.step = "sync"
          PROVE  Converges'
      <4>1. Owed'
        BY <3>2, <3>5 DEF Owed
      <4> QED BY <3>4, <4>1 DEF Converges, Owed
    <3>6. ASSUME Public(row') <=> Public(row)
          PROVE  Converges'
      <4>1. Owed => Owed'
        BY <3>2, <3>3 DEF Owed
      <4>2. Corrects => Corrects'
        BY <3>2, <3>3, <3>6 DEF Corrects, RightFact
      <4>3. \/ Owed' \/ Corrects'
            \/ (indexed' <=> Public(row')) /\ \A q \in Requests : req'[q].step # "apply"
        BY <2>2, <3>3, <3>6, <3>4, <4>1, <4>2 DEF Converges
      <4> QED BY <3>4, <4>3 DEF Converges, Owed, Corrects, RightFact, Public
    <3>7. ASSUME NEW q \in Requests
          PROVE  Hidden(req[q])'
      <4>1. CASE q = r
        BY <2>2, <3>1, <3>2, <4>1 DEF Hidden, Public
      <4>2. CASE q # r
        <5>1. Moves /\ row.version \in Nat /\ row'.version \in Nat
          BY <1>2, <2>4 DEF Owes, TypeOK, Columns
        <5>2. req'[q].at = row'.version => req[q].at # Now
          BY <3>2, <4>2, <5>1, ReviewAssumption
        <5>3. req'[q].at = row'.version => row'.version <= row.version
          BY <2>3, <3>2, <4>2, <5>2
        <5> QED BY <2>2, <3>2, <4>2, <5>1, <5>3 DEF Hidden, Moves, Public, Submittable
      <4> QED BY <4>1, <4>2
    <3> QED BY <3>1, <3>5, <3>6, <3>7 DEF Hidden
  <2>5. ASSUME NEW r \in Requests, NEW record, req' = [req EXCEPT ![r] = record],
               record.step \notin {"lookup", "cas"}, row' = row
        PROVE  \A q \in Requests : Hidden(req[q])'
    <3>1. req'[r] = record /\ \A q \in Requests \ {r} : req'[q] = req[q]
      BY <1>2, <2>5 DEF TypeOK
    <3> QED BY <2>2, <2>5, <3>1 DEF Hidden, Public
  <2>6. ASSUME NEW r \in Requests, SyncReads(r)
        PROVE  Converges' /\ \A q \in Requests : Hidden(req[q])'
    <3> DEFINE fact == Converged(req[r].task, row.there /\ row.global)
               record == [req[r] EXCEPT !.step = "apply", !.fact = fact]
    <3>1. fact = RightFact
      BY DEF Converged, RightFact, Public
    <3> HIDE DEF fact
    <3>2. record.step = "apply" /\ record.fact = fact
      BY <1>2, RecordType DEF Records
    <3>3. req' = [req EXCEPT ![r] = record]
      BY <2>6 DEF SyncReads, Set, fact
    <3> HIDE DEF record
    <3>4. req'[r] = record /\ \A q \in Requests \ {r} : req'[q] = req[q]
      BY <1>2, <3>3 DEF TypeOK
    <3>5. row' = row /\ lock = Nobody /\ lock' = r
      BY <2>6 DEF SyncReads
    <3>6. \A q \in Requests : req[q].step # "apply"
      BY <2>2, <3>5, ReviewAssumption DEF Converges
    <3>7. RightFact' = RightFact /\ RightFact \in {"index", "remove"}
      BY <3>5 DEF RightFact, Public
    <3>8. Corrects'
      BY <3>1, <3>2, <3>4, <3>7 DEF Corrects
    <3>9. Converges'
      BY <3>1, <3>2, <3>4, <3>5, <3>6, <3>7, <3>8 DEF Converges
    <3> QED BY <2>5, <3>2, <3>3, <3>5, <3>9
  <2>7. ASSUME NEW r \in Requests, SyncWrites(r)
        PROVE  Converges' /\ \A q \in Requests : Hidden(req[q])'
    <3>1. PICK record : req' = [req EXCEPT ![r] = record] /\ record.step \in {"sync", "done"}
      <4>1. [Syncs(r, "remove") EXCEPT !.plan = "remove"].step = "sync"
        BY DEF Syncs, Fresh
      <4> QED BY <2>7, <4>1, DoneOwes DEF SyncWrites, Set
    <3>2. req'[r] = record /\ \A q \in Requests \ {r} : req'[q] = req[q]
      BY <1>2, <3>1 DEF TypeOK
    <3>3. /\ row' = row
          /\ req[r].step = "apply"
          /\ indexed' <=> (req[r].fact = "index")
      BY <1>2, <2>7 DEF SyncWrites, At
    <3>4. \A q \in Requests : req'[q].step # "apply"
      BY <2>2, <3>1, <3>2, <3>3 DEF Converges
    <3>5. Owed => Owed'
      BY <3>2, <3>3 DEF Owed
    <3>6. Corrects => (indexed' <=> Public(row'))
      <4>1. ASSUME NEW q \in Requests, req[q].step = "apply"
            PROVE  q = r
        BY <2>2, <3>3, <4>1 DEF Converges
      <4> QED BY <3>3, <4>1 DEF Corrects, RightFact
    <3>7. Converges'
      BY <2>2, <3>3, <3>4, <3>5, <3>6 DEF Converges
    <3> QED BY <2>5, <3>1, <3>3, <3>7
  <2> QED BY <1>2, <2>4, <2>6, <2>7, IndexKinds
<1>3. ASSUME Indexing, UNCHANGED vars
      PROVE  Indexing'
  <2>1. /\ row' = row /\ req' = req /\ indexed' = indexed
        /\ lock' = lock /\ loose' = loose
    BY <1>3 DEF vars
  <2>2. Owed' = Owed /\ Corrects' = Corrects
    BY <2>1 DEF Owed, Corrects, RightFact, Public
  <2>3. Converges => Converges'
    BY <2>1, <2>2 DEF Converges, Public
  <2>4. (\A r \in Requests : Hidden(req[r])) => (\A r \in Requests : Hidden(req[r])')
    BY <2>1 DEF Hidden, Public
  <2> QED BY <1>3, <2>1, <2>3, <2>4 DEF Indexing
<1>4. TypeOK /\ TypeOK' /\ Chain /\ Ahead /\ Indexing /\ [Next]_vars => Indexing'
  BY <1>2, <1>3 DEF Indexing
<1> QED BY <1>1, <1>4, ReviewTypeCorrect, ChainAlways, PTL DEF Spec

\* When no request is under way the index shows the assistant exactly if it is public, in
\* whatever order decisions and index writes came, unless an index write was missed or a
\* visibility was written over a decision or past the index, for all requests.
THEOREM IndexAlwaysFollows == Spec => []IndexFollowsRow
<1>1. TypeOK /\ Indexing => IndexFollowsRow
  BY DEF TypeOK, Indexing, Converges, Owed, Corrects, IndexFollowsRow, Public
<1> QED BY <1>1, ReviewTypeCorrect, IndexingAlways, PTL
================================================================================

-------------------------- MODULE TournamentStore --------------------------
(***************************************************************************)
(* The tournament repository: an insert is one transaction, a transition   *)
(* reads and then writes under SQLite's snapshot rule, a load reads the    *)
(* header and the lifecycle in two statements of their own.                *)
(***************************************************************************)
EXTENDS Integers, Sequences, FiniteSets, SequencesExt

CONSTANTS
    StoreClients,   \* callers of the repository
    StoreTimes,     \* timestamps callers pass
    LastLifecycle,  \* bound: the longest lifecycle
    NoTournament    \* the absent row

VARIABLES
    tsRow,      \* the tournament: [schedule, rows, status, created, updated, events],
                \* or NoTournament
    tsOps,      \* per client, the call under way
    tsAcked     \* ghost: events whose transition was acknowledged

storeVars == <<tsRow, tsOps, tsAcked>>

LifecycleStates == {"draft", "scheduled", "running", "paused", "finished", "cancelled"}
RowTables == {"entries", "series", "matches", "seats", "byes"}
LifecycleEvent == [sequence: Nat, state: LifecycleStates, at: Nat]
TournamentRow ==
    [schedule: StoreClients, rows: [RowTables -> [of: StoreClients, status: {"pending"}]],
     status: LifecycleStates, created: Nat, updated: Nat, events: Seq(LifecycleEvent)]

\* A lifecycle has room for its first event, and the absent row is no row.
ASSUME StoreAssumption ==
    StoreTimes \subseteq Nat /\ LastLifecycle \in Nat \ {0} /\ NoTournament \notin TournamentRow

can_transition_to(from, to) ==
    \/ from = "draft" /\ to \in {"scheduled", "cancelled"}
    \/ from \in {"scheduled", "paused"} /\ to \in {"running", "cancelled"}
    \/ from = "running" /\ to \in {"paused", "finished", "cancelled"}

\* StoredTournament::validate, for the lifecycle.
ValidLifecycle(events) ==
    /\ events /= <<>> /\ events[1].state = "scheduled"
    /\ \A i \in DOMAIN events : events[i].sequence = i - 1
    /\ \A i \in 1..Len(events) - 1 :
        can_transition_to(events[i].state, events[i + 1].state) /\ events[i].at <= events[i + 1].at

Idle == [kind |-> "idle"]
Answer(result) == [kind |-> "done", result |-> result]

-----------------------------------------------------------------------------
\* The normalised copies of a schedule: insert_entries,
\* insert_series_matches_and_byes and insert_match.
InsertedRows(schedule) ==
    [table \in RowTables |-> [of |-> schedule, status |-> "pending"]]

\* validate_entries, validate_series, validate_matches and validate_byes
\* compare each copy with the schedule of the header.
RowsAgree(header, rows) ==
    \A table \in DOMAIN rows : rows[table].of = header.schedule /\ rows[table].status = "pending"

\* What one insert transaction leaves; the schedule is its caller's.
Inserted(c, at) ==
    [schedule |-> c, rows |-> InsertedRows(c), status |-> "scheduled", created |-> at, updated |-> at,
     events |-> << [sequence |-> 0, state |-> "scheduled", at |-> at] >>]

\* insert_tournament: header, entries, schedule, series, matches, byes and
\* lifecycle go in together; a missing ruleset or lexicon undoes them all.
insert_tournament(c, at, depsReady) ==
    /\ tsOps[c] = Idle
    /\ \/ /\ tsRow /= NoTournament
          /\ tsOps' = [tsOps EXCEPT ![c] = Answer("already_exists")] /\ UNCHANGED tsRow
       \/ /\ tsRow = NoTournament /\ ~depsReady
          /\ tsOps' = [tsOps EXCEPT ![c] = Answer("conflict")] /\ UNCHANGED tsRow
       \/ /\ tsRow = NoTournament /\ depsReady
          /\ tsRow' = Inserted(c, at)
          /\ tsOps' = [tsOps EXCEPT ![c] = Answer("inserted")]
    /\ UNCHANGED tsAcked

\* The checks of transition_tournament on the last event it read.
Accepts(last, expected, state, at) ==
    last.sequence = expected /\ can_transition_to(last.state, state) /\ at >= last.at

\* transition_tournament up to its first write.
TransitionRead(c, expected, state, at) ==
    /\ tsOps[c] = Idle
    /\ tsOps' = [tsOps EXCEPT ![c] =
            IF tsRow = NoTournament THEN Answer("not_found")
            ELSE IF Accepts(Last(tsRow.events), expected, state, at)
            THEN [kind |-> "transition", expected |-> expected, state |-> state, at |-> at,
                  seen |-> tsRow]
            ELSE Answer("conflict")]
    /\ UNCHANGED <<tsRow, tsAcked>>

\* Mutant: the transaction writes over a newer snapshot.
WriteOverNewer(c) ==
    LET op == tsOps[c]
        event == [sequence |-> op.expected + 1, state |-> op.state, at |-> op.at]
    IN /\ op.kind = "transition"
       /\ tsRow' = [op.seen EXCEPT !.status = op.state, !.updated = op.at, !.events = Append(@, event)]
       /\ tsAcked' = tsAcked \cup {event}
       /\ tsOps' = [tsOps EXCEPT ![c] = Answer("transitioned")]

\* The write, the guarded update of the header and the commit.  SQLite
\* refuses a transaction whose snapshot another writer has overtaken.
TransitionWrite(c) ==
    LET op == tsOps[c]
        event == [sequence |-> op.expected + 1, state |-> op.state, at |-> op.at]
        guard == tsRow.status = Last(op.seen.events).state /\ tsRow.updated <= op.at
    IN /\ op.kind = "transition"
       /\ IF op.seen /= tsRow
          THEN tsOps' = [tsOps EXCEPT ![c] = Answer("unavailable")] /\ UNCHANGED <<tsRow, tsAcked>>
          ELSE IF ~guard
          THEN tsOps' = [tsOps EXCEPT ![c] = Answer("conflict")] /\ UNCHANGED <<tsRow, tsAcked>>
          ELSE /\ tsRow' = [tsRow EXCEPT !.status = op.state, !.updated = op.at,
                                         !.events = Append(@, event)]
               /\ tsAcked' = tsAcked \cup {event}
               /\ tsOps' = [tsOps EXCEPT ![c] = Answer("transitioned")]

\* load_tournament: the header row with specification and schedule.
LoadHeader(c) ==
    /\ tsOps[c] = Idle
    /\ tsOps' = [tsOps EXCEPT ![c] =
            IF tsRow = NoTournament THEN Answer("not_found")
            ELSE [kind |-> "load", header |-> tsRow]]
    /\ UNCHANGED <<tsRow, tsAcked>>

\* validate_header
HeaderAgrees(header, events) ==
    /\ header.status = Last(events).state /\ header.updated = Last(events).at
    /\ header.created = events[1].at

\* load_lifecycle, then the validations.  The normalised rows are read by
\* statements of their own, too; nobody writes them after the insert.
LoadLifecycle(c) ==
    LET op == tsOps[c] IN
    /\ op.kind = "load"
    /\ tsOps' = [tsOps EXCEPT ![c] =
            IF /\ ValidLifecycle(tsRow.events) /\ HeaderAgrees(op.header, tsRow.events)
               /\ RowsAgree(op.header, tsRow.rows)
            THEN [kind |-> "done", result |-> "loaded", header |-> op.header,
                  events |-> tsRow.events]
            ELSE [kind |-> "done", result |-> "corrupt", header |-> op.header,
                  events |-> tsRow.events]]
    /\ UNCHANGED <<tsRow, tsAcked>>

StoreReturn(c) ==
    /\ tsOps[c].kind = "done"
    /\ tsOps' = [tsOps EXCEPT ![c] = Idle]
    /\ UNCHANGED <<tsRow, tsAcked>>

StoreInit == tsRow = NoTournament /\ tsOps = [c \in StoreClients |-> Idle] /\ tsAcked = {}

StoreNext ==
    \E c \in StoreClients :
        \/ \E at \in StoreTimes, depsReady \in BOOLEAN : insert_tournament(c, at, depsReady)
        \/ \E state \in LifecycleStates, at \in StoreTimes, expected \in 0..LastLifecycle - 2 :
                TransitionRead(c, expected, state, at)
        \/ TransitionWrite(c) \/ LoadHeader(c) \/ LoadLifecycle(c) \/ StoreReturn(c)

StoreSpec == StoreInit /\ [][StoreNext]_storeVars

-----------------------------------------------------------------------------
\* The row is absent or carries a lifecycle.
StoreTypeOK ==
    /\ tsRow = NoTournament \/ (tsRow.status \in LifecycleStates /\ Len(tsRow.events) \in 1..LastLifecycle)
    /\ \A c \in StoreClients : tsOps[c].kind \in {"idle", "transition", "load", "done"}

\* The stored lifecycle is legal, the header shows its end and every
\* normalised row is of the one schedule: a load with nobody else about
\* accepts it.
StoredIsLoadable ==
    tsRow /= NoTournament => /\ ValidLifecycle(tsRow.events)
                             /\ tsRow.status = Last(tsRow.events).state
                             /\ tsRow.updated = Last(tsRow.events).at
                             /\ RowsAgree(tsRow, tsRow.rows)

\* Every acknowledged transition is in the lifecycle at the place it was
\* acknowledged for, so of two callers who expect one sequence one is told no.
AcknowledgedIsStored ==
    \A e \in tsAcked : tsRow /= NoTournament /\ e \in ToSet(tsRow.events)

\* What a load returns is the tournament of one moment, not a header and a
\* lifecycle of two; it calls the store corrupt only when a transition came
\* between its two reads.
LoadIsOneMoment ==
    \A c \in StoreClients :
        /\ (tsOps[c].kind = "done" /\ tsOps[c].result = "loaded") =>
                /\ tsOps[c].header.status = Last(tsOps[c].events).state
                /\ tsOps[c].header.updated = Last(tsOps[c].events).at
        /\ (tsOps[c].kind = "done" /\ tsOps[c].result = "corrupt") =>
                tsOps[c].header.events /= tsOps[c].events

\* History is only appended to, a transition leaves the schedule and its
\* rows alone, and nothing follows the end of a tournament.
HistoryIsKept ==
    [][ tsRow /= NoTournament =>
            /\ IsPrefix(tsRow.events, tsRow'.events)
            /\ tsRow'.schedule = tsRow.schedule /\ tsRow'.rows = tsRow.rows
            /\ tsRow.status \in {"finished", "cancelled"} => tsRow' = tsRow ]_tsRow

\* Transitions that race: the acknowledged ones are stored, what is stored
\* loads, a load is of one moment, and history is only added to.
StoreSafety ==
    [](StoreTypeOK /\ StoredIsLoadable /\ AcknowledgedIsStored /\ LoadIsOneMoment) /\ HistoryIsKept
=============================================================================

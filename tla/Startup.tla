------------------------------ MODULE Startup ------------------------------
(***************************************************************************)
(* Starting the server on a data directory: migrations, the capability     *)
(* key, the matches a former process left, the port.  Processes crash, and *)
(* a second one may be started beside the first.                           *)
(***************************************************************************)
EXTENDS Integers, Sequences, FiniteSets, SequencesExt

CONSTANTS
    ServerProcesses,
    LastVersion,     \* versions before it run in a transaction, this one does not
    SeatTables,      \* tables the last migration rebuilds, in its order
    Indexed,         \* those of them it creates an index for, in its order
    Nobody

ASSUME StartupAssumption ==
    /\ LastVersion \in Nat /\ LastVersion > 1
    /\ SeatTables \in Seq(ToSet(SeatTables)) /\ SeatTables /= <<>> /\ Indexed \in Seq(ToSet(SeatTables))
    /\ \A i, j \in DOMAIN SeatTables : SeatTables[i] = SeatTables[j] => i = j
    /\ {Nobody, "absent", "empty"} \cap ServerProcesses = {}

VARIABLES
    suRecorded,   \* the highest version in _sqlx_migrations
    suMain,       \* table -> what has its name
    suAside,      \* table -> what has its name with _seat_v13
    suKey,        \* the key file: "absent", "empty", or the process whose key it holds
    suProc,       \* per process, where its start has got to
    suPort,       \* the process listening, or Nobody
    suMatch,      \* the stored status of the local match
    suRunner,     \* the process that runs the match, or Nobody
    suRows,       \* ghost: the database had rows to begin with
    suAlone       \* ghost: no process was ever started while another was up

startupVars == <<suRecorded, suMain, suAside, suKey, suProc, suPort, suMatch, suRunner, suRows, suAlone>>

Tables == ToSet(SeatTables)
NoTable == [shape |-> "absent", rows |-> FALSE, indexed |-> FALSE]
Down == [at |-> "down", next |-> 0, pc |-> 0, key |-> Nobody]

-----------------------------------------------------------------------------
(* Migrations: sqlx reads the history, then applies what is pending. *)

StartProcess(p) ==
    /\ suProc[p] = Down
    /\ suProc' = [suProc EXCEPT ![p] =
            IF suRecorded = LastVersion THEN [Down EXCEPT !.at = "key"]
            ELSE [Down EXCEPT !.at = "migrate", !.next = suRecorded + 1, !.pc = 1]]
    /\ suAlone' = (suAlone /\ \A q \in ServerProcesses : suProc[q] = Down)
    /\ UNCHANGED <<suRecorded, suMain, suAside, suKey, suPort, suMatch, suRunner>>

\* An error anywhere ends the start.
Fail(p) == suProc' = [suProc EXCEPT ![p] = Down]

\* A migration in a transaction with its history row; the first creates the
\* tables.  One that another process applied meanwhile fails.
ApplyTransacted(p) ==
    LET v == suProc[p].next IN
    /\ suProc[p].at = "migrate" /\ v < LastVersion
    /\ IF suRecorded >= v
       THEN Fail(p) /\ UNCHANGED <<suRecorded, suMain>>
       ELSE /\ suRecorded' = v
            /\ suMain' = IF v = 1 THEN [t \in Tables |-> [shape |-> "old", rows |-> FALSE, indexed |-> TRUE]]
                         ELSE suMain
            /\ suProc' = [suProc EXCEPT ![p].next = v + 1]
    /\ UNCHANGED <<suAside, suKey, suPort, suMatch, suRunner, suAlone>>

Each(op, tables) == [i \in DOMAIN tables |-> [op |-> op, table |-> tables[i]]]
Record == << [op |-> "record", table |-> Head(SeatTables)] >>

\* Mutant: the tables set aside are dropped before they are copied.
ScriptDropsFirst ==
    Each("rename", SeatTables) \o Each("create", SeatTables) \o Each("drop", SeatTables) \o Record

\* Migration 14: every statement commits by itself, the history row is last.
Script ==
    Each("rename", SeatTables) \o Each("create", SeatTables) \o Each("copy", SeatTables)
        \o Each("drop", SeatTables) \o Each("index", Indexed) \o Record

\* Whether SQLite accepts a statement.
Possible(s) ==
    CASE s.op = "rename" -> suMain[s.table] /= NoTable /\ suAside[s.table] = NoTable
      [] s.op = "create" -> suMain[s.table] = NoTable
      [] s.op = "copy" -> /\ suMain[s.table] /= NoTable /\ suAside[s.table] /= NoTable
                          /\ ~(suMain[s.table].rows /\ suAside[s.table].rows)
      [] s.op = "drop" -> suAside[s.table] /= NoTable
      [] s.op = "index" -> suMain[s.table] /= NoTable /\ ~suMain[s.table].indexed /\ ~suAside[s.table].indexed
      [] s.op = "record" -> suRecorded < LastVersion

\* One statement of the script, or the error that ends it.
ScriptStep(p) ==
    LET s == Script[suProc[p].pc]
        t == s.table
    IN /\ suProc[p].at = "migrate" /\ suProc[p].next = LastVersion
       /\ IF ~Possible(s)
          THEN Fail(p) /\ UNCHANGED <<suRecorded, suMain, suAside>>
          ELSE /\ suMain' = [suMain EXCEPT ![t] =
                    CASE s.op = "rename" -> NoTable
                      [] s.op = "create" -> [shape |-> "new", rows |-> FALSE, indexed |-> FALSE]
                      [] s.op = "copy" -> [@ EXCEPT !.rows = suMain[t].rows \/ suAside[t].rows]
                      [] s.op = "index" -> [@ EXCEPT !.indexed = TRUE]
                      [] OTHER -> @]
               /\ suAside' = [suAside EXCEPT ![t] = CASE s.op = "rename" -> suMain[t]
                                                      [] s.op = "drop" -> NoTable
                                                      [] OTHER -> @]
               /\ suRecorded' = IF s.op = "record" THEN LastVersion ELSE suRecorded
               /\ suProc' = [suProc EXCEPT ![p] =
                    IF @.pc = Len(Script) THEN [Down EXCEPT !.at = "key"] ELSE [@ EXCEPT !.pc = suProc[p].pc + 1]]
       /\ UNCHANGED <<suKey, suPort, suMatch, suRunner, suAlone>>

-----------------------------------------------------------------------------
(* The key, the matches, the port *)

\* load_or_create_key: create_new, or read what is there, which must be whole.
KeyOpen(p) ==
    /\ suProc[p].at = "key"
    /\ IF suKey = "absent"
       THEN suKey' = "empty" /\ suProc' = [suProc EXCEPT ![p].at = "write_key"]
       ELSE IF suKey = "empty" THEN Fail(p) /\ UNCHANGED suKey
       ELSE suProc' = [suProc EXCEPT ![p].at = "restore", ![p].key = suKey] /\ UNCHANGED suKey
    /\ UNCHANGED <<suRecorded, suMain, suAside, suPort, suMatch, suRunner, suAlone>>

\* write_all and sync_all.
KeyWrite(p) ==
    /\ suProc[p].at = "write_key"
    /\ suKey' = p /\ suProc' = [suProc EXCEPT ![p].at = "restore", ![p].key = p]
    /\ UNCHANGED <<suRecorded, suMain, suAside, suPort, suMatch, suRunner, suAlone>>

\* AgentMatchManager::restore: an active match has lost its runner.
Restore(p) ==
    /\ suProc[p].at = "restore"
    /\ suMatch' = IF suMatch = "active" THEN "interrupted" ELSE suMatch
    /\ suProc' = [suProc EXCEPT ![p].at = "bind"]
    /\ UNCHANGED <<suRecorded, suMain, suAside, suKey, suPort, suRunner, suAlone>>

\* TcpListener::bind, which comes after everything else.
Bind(p) ==
    /\ suProc[p].at = "bind"
    /\ IF suPort = Nobody
       THEN suPort' = p /\ suProc' = [suProc EXCEPT ![p].at = "serving"]
       ELSE Fail(p) /\ UNCHANGED suPort
    /\ UNCHANGED <<suRecorded, suMain, suAside, suKey, suMatch, suRunner, suAlone>>

\* The serving process starts, updates and finishes a match.
RunMatch(p) ==
    /\ suProc[p].at = "serving"
    /\ \/ suRunner = Nobody /\ suMatch /= "active" /\ suMatch' = "active" /\ suRunner' = p
       \/ suRunner = p /\ suMatch' = "active" /\ UNCHANGED suRunner
       \/ suRunner = p /\ suMatch' = "finished" /\ suRunner' = Nobody
    /\ UNCHANGED <<suRecorded, suMain, suAside, suKey, suProc, suPort, suAlone>>

\* A process stops at any point and takes its runner with it.
CrashProcess(p) ==
    /\ suProc[p] /= Down /\ Fail(p)
    /\ suPort' = IF suPort = p THEN Nobody ELSE suPort
    /\ suRunner' = IF suRunner = p THEN Nobody ELSE suRunner
    /\ UNCHANGED <<suRecorded, suMain, suAside, suKey, suMatch, suAlone>>

StartupInit ==
    /\ suRows \in BOOLEAN
    /\ suRecorded = IF suRows THEN LastVersion - 1 ELSE 0
    /\ suMain = [t \in Tables |-> IF suRows THEN [shape |-> "old", rows |-> TRUE, indexed |-> TRUE]
                                  ELSE NoTable]
    /\ suAside = [t \in Tables |-> NoTable]
    /\ suKey = "absent" /\ suPort = Nobody /\ suMatch = "none" /\ suRunner = Nobody /\ suAlone = TRUE
    /\ suProc = [p \in ServerProcesses |-> Down]

StartupNext ==
    /\ \E p \in ServerProcesses :
        \/ StartProcess(p) \/ ApplyTransacted(p) \/ ScriptStep(p) \/ KeyOpen(p) \/ KeyWrite(p)
        \/ Restore(p) \/ Bind(p) \/ RunMatch(p) \/ CrashProcess(p)
    /\ UNCHANGED suRows

StartupSpec == StartupInit /\ [][StartupNext]_startupVars

-----------------------------------------------------------------------------
\* Starts are in a known place, and the port is the serving process's.
StartupTypeOK ==
    /\ suRecorded \in 0..LastVersion
    /\ \A p \in ServerProcesses :
        /\ suProc[p].at \in {"down", "migrate", "key", "write_key", "restore", "bind", "serving"}
        /\ (suProc[p].at = "serving") = (suPort = p)

\* However the untransacted migration is interrupted and repeated, even by
\* two processes at once, the rows of every table are still somewhere.
RowsSurvive ==
    suRows => \A t \in Tables : suMain[t].rows \/ suAside[t].rows

\* A process that started with nobody about serves only from the complete
\* schema with its rows; after a crash in the middle of the last migration
\* no start gets that far.
ServesFromWholeSchema ==
    (suAlone /\ suPort /= Nobody) =>
        /\ suRecorded = LastVersion
        /\ \A t \in Tables : /\ suMain[t] = [shape |-> "new", rows |-> suRows, indexed |-> t \in ToSet(Indexed)]
                             /\ suAside[t] = NoTable

\* Every process past the key holds the key that is in the file, so a
\* capability issued by one is valid with the next; a torn key file stops
\* every later start.
OneKey ==
    \A p \in ServerProcesses : suProc[p].at \in {"restore", "bind", "serving"} => suProc[p].key = suKey

\* A server that was started alone does not present a match as live that
\* nobody runs.
NoMatchPretendsToRun ==
    (suAlone /\ suPort /= Nobody /\ suMatch = "active") => suRunner /= Nobody

\* Only abandoned matches are marked as interrupted, as restore says.  A
\* second server marks the running ones of the first before it finds the
\* port taken.
OnlyAbandonedAreInterrupted == suMatch = "interrupted" => suRunner = Nobody

\* However starts crash and overlap: no rows are lost, a server that started
\* alone has the whole schema and no match without a runner, all have one key.
StartupSafety == StartupTypeOK /\ RowsSurvive /\ ServesFromWholeSchema /\ OneKey /\ NoMatchPretendsToRun
=============================================================================

--------------------------- MODULE RecordsProofs ---------------------------
(***************************************************************************)
(* Proofs about what is kept of games: tournaments and their schedules,    *)
(* exports, ratings and statistics.  The sums of the statistics rest on    *)
(* the theory of sums of RefereeProofs.                                    *)
(***************************************************************************)
EXTENDS RefereeProofs, TournamentStore, TournamentSchedule, ExportStream, RatingStore, StatisticsStore,
        TLAPS, FiniteSetTheorems, WellFoundedInduction

-----------------------------------------------------------------------------
(* Sequences *)

\* What appending an element leaves of a sequence.
LEMMA AppendFacts ==
    ASSUME NEW S, NEW s \in Seq(S), NEW e \in S
    PROVE  /\ Append(s, e) \in Seq(S) /\ Len(Append(s, e)) = Len(s) + 1
           /\ DOMAIN Append(s, e) = 1..Len(s) + 1 /\ DOMAIN s = 1..Len(s) /\ Len(s) \in Nat
           /\ Append(s, e)[Len(s) + 1] = e /\ Last(Append(s, e)) = e
           /\ \A i \in 1..Len(s) : Append(s, e)[i] = s[i] /\ i \in 1..Len(s) + 1
<1>1. Last(Append(s, e)) = Append(s, e)[Len(Append(s, e))]
    BY DEF Last
<1> QED BY <1>1

\* A sequence is a prefix of itself with one more element.
LEMMA AppendPrefix ==
    ASSUME NEW S, NEW s \in Seq(S), NEW e \in S
    PROVE  IsPrefix(s, Append(s, e)) /\ IsPrefix(s, s)
<1>1. SubSeq(Append(s, e), 1, Len(s)) = s /\ SubSeq(s, 1, Len(s)) = s
    OBVIOUS
<1>2. Len(Append(s, e)) = Len(s) + 1 /\ Len(s) \in Nat
    OBVIOUS
<1> QED BY <1>1, <1>2 DEF IsPrefix

\* The elements of a sequence with one more.
LEMMA AppendElements ==
    ASSUME NEW S, NEW s \in Seq(S), NEW e \in S
    PROVE  ToSet(Append(s, e)) = ToSet(s) \cup {e}
<1>1. PICK t : t = Append(s, e)
    OBVIOUS
<1>2. /\ DOMAIN t = 1..Len(s) + 1 /\ DOMAIN s = 1..Len(s) /\ Len(s) \in Nat /\ t[Len(s) + 1] = e
      /\ \A i \in 1..Len(s) : t[i] = s[i]
    BY <1>1, AppendFacts
<1>3. \A i \in 1..Len(s) + 1 : i \in 1..Len(s) \/ i = Len(s) + 1
    BY <1>2
<1>4. Len(s) + 1 \in 1..Len(s) + 1 /\ \A i \in 1..Len(s) : i \in 1..Len(s) + 1
    BY <1>2
<1>5. ToSet(t) = ToSet(s) \cup {e}
    BY <1>2, <1>3, <1>4, Zenon DEF ToSet
<1> QED BY <1>1, <1>5

\* Sequences over a larger set.
LEMMA SeqMonotone ==
    ASSUME NEW S, NEW T, S \subseteq T, NEW s \in Seq(S)
    PROVE  s \in Seq(T)
OBVIOUS

-----------------------------------------------------------------------------
(* Tournaments *)

\* A row that a load with nobody else about accepts.
RowIsSound(row) ==
    /\ row \in TournamentRow /\ Len(row.events) <= LastLifecycle
    /\ ValidLifecycle(row.events) /\ HeaderAgrees(row, row.events) /\ RowsAgree(row, row.rows)

TransitionCall ==
    [kind: {"transition"}, expected: 0..LastLifecycle - 2, state: LifecycleStates, at: Nat,
     seen: TournamentRow]
LoadCall == [kind: {"load"}, header: TournamentRow]
LoadAnswer == [kind: {"done"}, result: {"loaded", "corrupt"}, header: TournamentRow,
               events: Seq(LifecycleEvent)]
OtherAnswers ==
    {"already_exists", "conflict", "inserted", "not_found", "unavailable", "transitioned"}
OtherAnswer == [kind: {"done"}, result: OtherAnswers]

\* A transition carries what its read accepted, a load the row of a moment.
CallIsSound(call, row) ==
    \/ call = Idle
    \/ call \in OtherAnswer
    \/ call \in TransitionCall /\ Accepts(Last(call.seen.events), call.expected, call.state, call.at)
    \/ /\ call \in LoadCall /\ RowIsSound(call.header)
       /\ row /= NoTournament /\ call.header.schedule = row.schedule
    \/ /\ call \in LoadAnswer
       /\ call.result = "loaded" => HeaderAgrees(call.header, call.events)
       /\ call.result = "corrupt" => call.header.events /= call.events

StoreInv ==
    /\ tsRow = NoTournament \/ RowIsSound(tsRow)
    /\ AcknowledgedIsStored
    /\ DOMAIN tsOps = StoreClients
    /\ \A c \in StoreClients : CallIsSound(tsOps[c], tsRow)

\* What a step may do to the row.
RowStep ==
    tsRow /= NoTournament =>
        /\ tsRow' /= NoTournament
        /\ IsPrefix(tsRow.events, tsRow'.events)
        /\ tsRow'.schedule = tsRow.schedule /\ tsRow'.rows = tsRow.rows
        /\ tsRow.status \in {"finished", "cancelled"} => tsRow' = tsRow

\* The row an insert leaves is sound, and nothing but its one event is in it.
LEMMA InsertedIsSound ==
    ASSUME NEW c \in StoreClients, NEW at \in Nat
    PROVE  RowIsSound(Inserted(c, at)) /\ Inserted(c, at) /= NoTournament
<1>1. PICK e : e = [sequence |-> 0, state |-> "scheduled", at |-> at]
    OBVIOUS
<1>2. e \in LifecycleEvent /\ e.sequence = 0 /\ e.state = "scheduled" /\ e.at = at
    BY <1>1 DEF LifecycleEvent, LifecycleStates
<1>3. PICK rows : rows = InsertedRows(c)
    OBVIOUS
<1>4. /\ rows \in [RowTables -> [of: StoreClients, status: {"pending"}]]
      /\ \A table \in RowTables : rows[table].of = c /\ rows[table].status = "pending"
      /\ DOMAIN rows = RowTables
    BY <1>3 DEF InsertedRows
<1>5. PICK new : new = Inserted(c, at)
    OBVIOUS
<1>6. new = [schedule |-> c, rows |-> rows, status |-> "scheduled", created |-> at,
             updated |-> at, events |-> <<e>>]
    BY <1>1, <1>3, <1>5 DEF Inserted
<1>7. /\ <<e>> \in Seq(LifecycleEvent) /\ Len(<<e>>) = 1 /\ <<e>>[1] = e
      /\ DOMAIN <<e>> = {1} /\ Last(<<e>>) = e /\ <<e>> /= <<>>
    BY <1>2 DEF Last
<1>8. /\ new \in TournamentRow
      /\ new.schedule = c /\ new.rows = rows /\ new.status = "scheduled" /\ new.created = at
      /\ new.updated = at /\ new.events = <<e>>
    BY <1>4, <1>6, <1>7 DEF TournamentRow, LifecycleStates
<1>9. ValidLifecycle(<<e>>)
    BY <1>2, <1>7 DEF ValidLifecycle
<1>10. HeaderAgrees(new, <<e>>) /\ RowsAgree(new, rows)
    BY <1>2, <1>4, <1>7, <1>8 DEF HeaderAgrees, RowsAgree
<1>11. Len(<<e>>) <= LastLifecycle
    BY <1>7, StoreAssumption
<1> QED BY <1>5, <1>7, <1>8, <1>9, <1>10, <1>11, StoreAssumption DEF RowIsSound

\* The row is the stored one with the event of the call at its end.
Transitioned(row, call, event) ==
    row = [tsRow EXCEPT !.status = call.state, !.updated = call.at, !.events = Append(@, event)]

\* The row that an accepted transition leaves: sound, with one event more.
LEMMA TransitionIsSound ==
    ASSUME RowIsSound(tsRow), NEW call \in TransitionCall,
           Accepts(Last(tsRow.events), call.expected, call.state, call.at),
           NEW event, event = [sequence |-> call.expected + 1, state |-> call.state, at |-> call.at],
           NEW row, Transitioned(row, call, event)
    PROVE  /\ RowIsSound(row) /\ row /= NoTournament
           /\ row.schedule = tsRow.schedule /\ row.rows = tsRow.rows
           /\ IsPrefix(tsRow.events, row.events)
           /\ ToSet(row.events) = ToSet(tsRow.events) \cup {event}
           /\ tsRow.status \notin {"finished", "cancelled"}
<1>1. /\ call.expected \in 0..LastLifecycle - 2 /\ call.state \in LifecycleStates /\ call.at \in Nat
    BY DEF TransitionCall
<1>2. PICK s \in Seq(LifecycleEvent) : s = tsRow.events
    BY DEF RowIsSound, TournamentRow
<1>3. /\ event \in LifecycleEvent /\ event.sequence = call.expected + 1
      /\ event.state = call.state /\ event.at = call.at
    BY <1>1 DEF LifecycleEvent
<1>4. PICK t : t = Append(s, event)
    OBVIOUS
<1>5. /\ t \in Seq(LifecycleEvent) /\ Len(t) = Len(s) + 1 /\ Len(s) \in Nat
      /\ DOMAIN t = 1..Len(s) + 1 /\ DOMAIN s = 1..Len(s)
      /\ t[Len(s) + 1] = event /\ Last(t) = event
      /\ \A i \in 1..Len(s) : t[i] = s[i]
    BY <1>3, <1>4, AppendFacts
<1>6. /\ row \in TournamentRow
      /\ row.schedule = tsRow.schedule /\ row.rows = tsRow.rows /\ row.status = call.state
      /\ row.created = tsRow.created /\ row.updated = call.at /\ row.events = t
    BY <1>1, <1>2, <1>4, <1>5 DEF RowIsSound, TournamentRow, Transitioned
<1>7. /\ s /= <<>> /\ s[1].state = "scheduled"
      /\ \A i \in DOMAIN s : s[i].sequence = i - 1
      /\ \A i \in 1..Len(s) - 1 :
            can_transition_to(s[i].state, s[i + 1].state) /\ s[i].at <= s[i + 1].at
    BY <1>2 DEF RowIsSound, ValidLifecycle
<1>8. Len(s) > 0 /\ Last(s) = s[Len(s)] /\ 1 \in 1..Len(s) /\ Len(s) \in 1..Len(s)
    BY <1>7 DEF Last
<1>9. /\ Len(s) - 1 = call.expected /\ can_transition_to(s[Len(s)].state, call.state)
      /\ s[Len(s)].at <= call.at
    BY <1>2, <1>5, <1>7, <1>8 DEF Accepts
<1>10. ValidLifecycle(t)
    <2>1. t /= <<>> /\ t[1].state = "scheduled"
        BY <1>5, <1>7, <1>8
    <2>2. ASSUME NEW i \in DOMAIN t
          PROVE  t[i].sequence = i - 1
        <3>1. CASE i = Len(s) + 1
            BY <3>1, <1>1, <1>3, <1>5, <1>9
        <3>2. CASE i \in 1..Len(s)
            BY <3>2, <1>5, <1>7
        <3> QED BY <3>1, <3>2, <1>5
    <2>3. ASSUME NEW i \in 1..Len(t) - 1
          PROVE  can_transition_to(t[i].state, t[i + 1].state) /\ t[i].at <= t[i + 1].at
        <3>1. CASE i = Len(s)
            BY <3>1, <1>3, <1>5, <1>8, <1>9
        <3>2. CASE i \in 1..Len(s) - 1
            <4>1. t[i] = s[i] /\ t[i + 1] = s[i + 1]
                BY <3>2, <1>5
            <4> QED BY <3>2, <4>1, <1>7
        <3>3. i = Len(s) \/ i \in 1..Len(s) - 1
            BY <1>5
        <3> QED BY <3>1, <3>2, <3>3, Zenon
    <2> QED BY <2>1, <2>2, <2>3 DEF ValidLifecycle
<1>11. HeaderAgrees(row, t)
    <2>1. tsRow.created = s[1].at
        BY <1>2 DEF RowIsSound, HeaderAgrees
    <2>2. t[1] = s[1]
        BY <1>5, <1>8
    <2> QED BY <2>1, <2>2, <1>3, <1>5, <1>6 DEF HeaderAgrees
<1>12. RowsAgree(row, row.rows)
    BY <1>6 DEF RowIsSound, RowsAgree
<1>13. Len(t) <= LastLifecycle
    BY <1>1, <1>5, <1>9, StoreAssumption
<1>14. IsPrefix(s, t)
    BY <1>3, <1>4, AppendPrefix
<1>15. ToSet(t) = ToSet(s) \cup {event}
    BY <1>3, <1>4, AppendElements
<1>16. tsRow.status \notin {"finished", "cancelled"}
    <2>1. tsRow.status = s[Len(s)].state
        BY <1>2, <1>8 DEF RowIsSound, HeaderAgrees
    <2> QED BY <2>1, <1>9 DEF can_transition_to
<1> QED BY <1>2, <1>6, <1>10, <1>11, <1>12, <1>13, <1>14, <1>15, <1>16, StoreAssumption DEF RowIsSound

\* A call stays sound while the tournament stays the one it is about.
LEMMA CallStaysSound ==
    ASSUME NEW call, NEW row, NEW next, CallIsSound(call, row),
           row /= NoTournament => next /= NoTournament /\ next.schedule = row.schedule
    PROVE  CallIsSound(call, next)
BY DEF CallIsSound

\* A step of one call that leaves the row alone keeps the invariant.
LEMMA CallStep ==
    ASSUME StoreInv, NEW c \in StoreClients, NEW call, CallIsSound(call, tsRow),
           tsOps' = [tsOps EXCEPT ![c] = call], UNCHANGED <<tsRow, tsAcked>>
    PROVE  StoreInv' /\ (tsRow /= NoTournament => RowStep)
<1>1. DOMAIN tsOps' = StoreClients
    BY DEF StoreInv
<1>2. \A d \in StoreClients : tsOps'[d] = IF d = c THEN call ELSE tsOps[d]
    BY DEF StoreInv
<1>3. \A d \in StoreClients : CallIsSound(tsOps'[d], tsRow)
    BY <1>2 DEF StoreInv
<1>4. StoreInv'
    BY <1>1, <1>3 DEF StoreInv, AcknowledgedIsStored
<1>5. ASSUME tsRow /= NoTournament
      PROVE  RowStep
    <2>1. PICK s \in Seq(LifecycleEvent) : s = tsRow.events
        BY <1>5 DEF StoreInv, RowIsSound, TournamentRow
    <2>2. Len(s) \in Nat /\ SubSeq(s, 1, Len(s)) = s
        OBVIOUS
    <2>3. IsPrefix(s, s)
        BY <2>2 DEF IsPrefix
    <2> QED BY <2>1, <2>3 DEF RowStep
<1> QED BY <1>4, <1>5

\* Every step keeps the rows and the calls sound, and the history.
LEMMA StoreStepIsSound ==
    ASSUME StoreInv, StoreNext
    PROVE  StoreInv' /\ RowStep
<1> PICK c \in StoreClients :
        \/ \E at \in StoreTimes, depsReady \in BOOLEAN : insert_tournament(c, at, depsReady)
        \/ \E state \in LifecycleStates, at \in StoreTimes, expected \in 0..LastLifecycle - 2 :
                TransitionRead(c, expected, state, at)
        \/ TransitionWrite(c) \/ LoadHeader(c) \/ LoadLifecycle(c) \/ StoreReturn(c)
    BY DEF StoreNext
<1>0. /\ DOMAIN tsOps = StoreClients /\ CallIsSound(tsOps[c], tsRow)
      /\ tsRow = NoTournament \/ RowIsSound(tsRow)
    BY DEF StoreInv
<1>a. ASSUME NEW result \in OtherAnswers, tsOps' = [tsOps EXCEPT ![c] = Answer(result)],
             UNCHANGED <<tsRow, tsAcked>>
      PROVE  StoreInv' /\ RowStep
    <2>1. Answer(result) \in OtherAnswer
        BY DEF Answer, OtherAnswer
    <2>2. CallIsSound(Answer(result), tsRow)
        BY <2>1 DEF CallIsSound
    <2>3. StoreInv' /\ (tsRow /= NoTournament => RowStep)
        BY <1>a, <2>2, CallStep
    <2> QED BY <2>3 DEF RowStep
<1>1. ASSUME NEW at \in StoreTimes, NEW depsReady \in BOOLEAN, insert_tournament(c, at, depsReady)
      PROVE  StoreInv' /\ RowStep
    <2>1. CASE tsRow /= NoTournament /\ tsOps' = [tsOps EXCEPT ![c] = Answer("already_exists")]
               /\ UNCHANGED tsRow
        BY <2>1, <1>1, <1>a DEF insert_tournament, OtherAnswers
    <2>2. CASE tsOps' = [tsOps EXCEPT ![c] = Answer("conflict")] /\ UNCHANGED tsRow
        BY <2>2, <1>1, <1>a DEF insert_tournament, OtherAnswers
    <2>3. CASE /\ tsRow = NoTournament /\ tsRow' = Inserted(c, at)
               /\ tsOps' = [tsOps EXCEPT ![c] = Answer("inserted")]
        <3>1. at \in Nat
            BY StoreAssumption
        <3>2. RowIsSound(tsRow') /\ tsRow' /= NoTournament
            BY <2>3, <3>1, InsertedIsSound
        <3>3. tsAcked' = tsAcked /\ tsAcked = {}
            BY <2>3, <1>1 DEF insert_tournament, StoreInv, AcknowledgedIsStored
        <3>4. Answer("inserted") \in OtherAnswer
            BY DEF Answer, OtherAnswer, OtherAnswers
        <3>5. ASSUME NEW d \in StoreClients
              PROVE  CallIsSound(tsOps'[d], tsRow')
            <4>1. CASE d = c
                BY <4>1, <2>3, <3>4, <1>0 DEF CallIsSound
            <4>2. CASE d /= c
                <5>1. tsOps'[d] = tsOps[d] /\ CallIsSound(tsOps[d], tsRow)
                    BY <4>2, <2>3, <1>0 DEF StoreInv
                <5> QED BY <5>1, <2>3, CallStaysSound
            <4> QED BY <4>1, <4>2
        <3>6. DOMAIN tsOps' = StoreClients
            BY <2>3, <1>0
        <3>7. AcknowledgedIsStored'
            BY <3>3 DEF AcknowledgedIsStored
        <3> QED BY <2>3, <3>2, <3>5, <3>6, <3>7 DEF StoreInv, RowStep
    <2> QED BY <2>1, <2>2, <2>3, <1>1 DEF insert_tournament
<1>2. ASSUME NEW state \in LifecycleStates, NEW at \in StoreTimes, NEW expected \in 0..LastLifecycle - 2,
             TransitionRead(c, expected, state, at)
      PROVE  StoreInv' /\ RowStep
    <2>0. UNCHANGED <<tsRow, tsAcked>>
        BY <1>2 DEF TransitionRead
    <2>1. CASE tsOps' = [tsOps EXCEPT ![c] = Answer("not_found")]
        BY <2>0, <2>1, <1>a DEF OtherAnswers
    <2>2. CASE tsOps' = [tsOps EXCEPT ![c] = Answer("conflict")]
        BY <2>0, <2>2, <1>a DEF OtherAnswers
    <2>3. CASE /\ tsRow /= NoTournament /\ Accepts(Last(tsRow.events), expected, state, at)
               /\ tsOps' = [tsOps EXCEPT ![c] =
                    [kind |-> "transition", expected |-> expected, state |-> state, at |-> at,
                     seen |-> tsRow]]
        <3>1. PICK call : call = [kind |-> "transition", expected |-> expected, state |-> state,
                                  at |-> at, seen |-> tsRow]
            OBVIOUS
        <3>2. at \in Nat /\ tsRow \in TournamentRow
            BY <2>3, <1>0, StoreAssumption DEF RowIsSound
        <3>3. /\ call \in TransitionCall /\ call.expected = expected /\ call.state = state
              /\ call.at = at /\ call.seen = tsRow
            BY <3>1, <3>2 DEF TransitionCall
        <3>4. CallIsSound(call, tsRow)
            BY <2>3, <3>3 DEF CallIsSound
        <3>5. tsOps' = [tsOps EXCEPT ![c] = call]
            BY <2>3, <3>1
        <3> QED BY <2>0, <2>3, <3>4, <3>5, CallStep
    <2> QED BY <2>1, <2>2, <2>3, <1>2 DEF TransitionRead
<1>3. ASSUME TransitionWrite(c)
      PROVE  StoreInv' /\ RowStep
    <2>1. PICK call : call = tsOps[c]
        OBVIOUS
    <2>2. call.kind = "transition" /\ CallIsSound(call, tsRow)
        BY <1>0, <1>3, <2>1 DEF TransitionWrite
    <2>3. /\ call \in TransitionCall
          /\ Accepts(Last(call.seen.events), call.expected, call.state, call.at)
        BY <2>2 DEF CallIsSound, Idle, OtherAnswer, LoadCall, LoadAnswer
    <2>4. CASE tsOps' = [tsOps EXCEPT ![c] = Answer("unavailable")] /\ UNCHANGED <<tsRow, tsAcked>>
        BY <2>4, <1>a DEF OtherAnswers
    <2>5. CASE tsOps' = [tsOps EXCEPT ![c] = Answer("conflict")] /\ UNCHANGED <<tsRow, tsAcked>>
        BY <2>5, <1>a DEF OtherAnswers
    <2>6. PICK event : event = [sequence |-> call.expected + 1, state |-> call.state, at |-> call.at]
        OBVIOUS
    <2>7. CASE /\ call.seen = tsRow
               /\ tsRow' = [tsRow EXCEPT !.status = call.state, !.updated = call.at,
                                         !.events = Append(@, event)]
               /\ tsAcked' = tsAcked \cup {event}
               /\ tsOps' = [tsOps EXCEPT ![c] = Answer("transitioned")]
        <3>1. tsRow \in TournamentRow
            BY <2>3, <2>7 DEF TransitionCall
        <3>2. RowIsSound(tsRow) /\ tsRow /= NoTournament
            BY <3>1, <1>0, StoreAssumption
        <3>3. Accepts(Last(tsRow.events), call.expected, call.state, call.at)
            BY <2>3, <2>7
        <3>0. Transitioned(tsRow', call, event)
            BY <2>7 DEF Transitioned
        <3>4. /\ RowIsSound(tsRow') /\ tsRow' /= NoTournament
              /\ tsRow'.schedule = tsRow.schedule /\ tsRow'.rows = tsRow.rows
              /\ IsPrefix(tsRow.events, tsRow'.events)
              /\ ToSet(tsRow'.events) = ToSet(tsRow.events) \cup {event}
              /\ tsRow.status \notin {"finished", "cancelled"}
            BY <2>3, <2>6, <3>0, <3>2, <3>3, TransitionIsSound, ZenonT(40)
        <3>5. Answer("transitioned") \in OtherAnswer
            BY DEF Answer, OtherAnswer, OtherAnswers
        <3>6. ASSUME NEW d \in StoreClients
              PROVE  CallIsSound(tsOps'[d], tsRow')
            <4>1. CASE d = c
                BY <4>1, <2>7, <3>5, <1>0 DEF CallIsSound
            <4>2. CASE d /= c
                <5>1. tsOps'[d] = tsOps[d] /\ CallIsSound(tsOps[d], tsRow)
                    BY <4>2, <2>7, <1>0 DEF StoreInv
                <5> QED BY <5>1, <3>4, CallStaysSound
            <4> QED BY <4>1, <4>2
        <3>7. DOMAIN tsOps' = StoreClients
            BY <2>7, <1>0
        <3>8. AcknowledgedIsStored'
            BY <2>7, <3>4 DEF AcknowledgedIsStored, StoreInv
        <3>9. RowStep
            BY <3>4 DEF RowStep
        <3> QED BY <3>4, <3>6, <3>7, <3>8, <3>9 DEF StoreInv
    <2> QED BY <2>1, <2>4, <2>5, <2>6, <2>7, <1>3 DEF TransitionWrite
<1>4. ASSUME LoadHeader(c)
      PROVE  StoreInv' /\ RowStep
    <2>0. UNCHANGED <<tsRow, tsAcked>>
        BY <1>4 DEF LoadHeader
    <2>1. CASE tsOps' = [tsOps EXCEPT ![c] = Answer("not_found")]
        BY <2>0, <2>1, <1>a DEF OtherAnswers
    <2>2. CASE tsRow /= NoTournament /\ tsOps' = [tsOps EXCEPT ![c] = [kind |-> "load", header |-> tsRow]]
        <3>1. PICK call : call = [kind |-> "load", header |-> tsRow]
            OBVIOUS
        <3>2. call \in LoadCall /\ call.header = tsRow
            BY <2>2, <3>1, <1>0 DEF LoadCall, RowIsSound
        <3>3. CallIsSound(call, tsRow)
            BY <2>2, <3>2, <1>0 DEF CallIsSound
        <3>4. tsOps' = [tsOps EXCEPT ![c] = call]
            BY <2>2, <3>1
        <3> QED BY <2>0, <2>2, <3>3, <3>4, CallStep
    <2> QED BY <2>1, <2>2, <1>4 DEF LoadHeader
<1>5. ASSUME LoadLifecycle(c)
      PROVE  StoreInv' /\ RowStep
    <2>1. PICK call : call = tsOps[c]
        OBVIOUS
    <2>2. call.kind = "load" /\ CallIsSound(call, tsRow)
        BY <1>0, <1>5, <2>1 DEF LoadLifecycle
    <2>3. /\ call \in LoadCall /\ RowIsSound(call.header)
          /\ tsRow /= NoTournament /\ call.header.schedule = tsRow.schedule
        BY <2>2 DEF CallIsSound, Idle, OtherAnswer, TransitionCall, LoadAnswer
    <2>4. RowIsSound(tsRow) /\ tsRow.events \in Seq(LifecycleEvent) /\ call.header \in TournamentRow
        BY <2>3, <1>0 DEF LoadCall, RowIsSound, TournamentRow
    <2>5. ASSUME NEW result \in {"loaded", "corrupt"},
                 result = "loaded" => HeaderAgrees(call.header, tsRow.events),
                 result = "corrupt" => call.header.events /= tsRow.events,
                 tsOps' = [tsOps EXCEPT ![c] = [kind |-> "done", result |-> result,
                            header |-> call.header, events |-> tsRow.events]]
          PROVE  StoreInv' /\ RowStep
        <3>1. PICK answer : answer = [kind |-> "done", result |-> result, header |-> call.header,
                                      events |-> tsRow.events]
            OBVIOUS
        <3>2. /\ answer \in LoadAnswer /\ answer.result = result /\ answer.header = call.header
              /\ answer.events = tsRow.events
            BY <3>1, <2>4 DEF LoadAnswer
        <3>3. CallIsSound(answer, tsRow)
            BY <2>5, <3>2 DEF CallIsSound
        <3>4. tsOps' = [tsOps EXCEPT ![c] = answer]
            BY <2>5, <3>1
        <3>5. UNCHANGED <<tsRow, tsAcked>>
            BY <1>5 DEF LoadLifecycle
        <3> QED BY <2>3, <3>3, <3>4, <3>5, CallStep
    <2>6. CASE /\ ValidLifecycle(tsRow.events) /\ HeaderAgrees(call.header, tsRow.events)
               /\ RowsAgree(call.header, tsRow.rows)
        BY <2>1, <2>5, <2>6, <1>5 DEF LoadLifecycle
    <2>7. CASE ~(/\ ValidLifecycle(tsRow.events) /\ HeaderAgrees(call.header, tsRow.events)
                 /\ RowsAgree(call.header, tsRow.rows))
        <3>1. ValidLifecycle(tsRow.events) /\ RowsAgree(call.header, tsRow.rows)
            BY <2>3, <2>4 DEF RowIsSound, RowsAgree
        <3>2. HeaderAgrees(call.header, call.header.events)
            BY <2>3 DEF RowIsSound
        <3>3. call.header.events /= tsRow.events
            BY <2>7, <3>1, <3>2
        <3> QED BY <2>1, <2>5, <2>7, <3>3, <1>5 DEF LoadLifecycle
    <2> QED BY <2>6, <2>7
<1>6. ASSUME StoreReturn(c)
      PROVE  StoreInv' /\ RowStep
    <2>1. CallIsSound(Idle, tsRow)
        BY DEF CallIsSound
    <2>2. StoreInv' /\ (tsRow /= NoTournament => RowStep)
        BY <1>6, <2>1, CallStep DEF StoreReturn
    <2> QED BY <2>2 DEF RowStep
<1> QED BY <1>1, <1>2, <1>3, <1>4, <1>5, <1>6

\* The invariant gives what is promised of a state of the store.
LEMMA StoreInvIsSafe ==
    ASSUME StoreInv
    PROVE  StoreTypeOK /\ StoredIsLoadable /\ AcknowledgedIsStored /\ LoadIsOneMoment
<1>1. ASSUME tsRow /= NoTournament
      PROVE  /\ tsRow.status \in LifecycleStates /\ Len(tsRow.events) \in 1..LastLifecycle
             /\ ValidLifecycle(tsRow.events)
             /\ tsRow.status = Last(tsRow.events).state /\ tsRow.updated = Last(tsRow.events).at
             /\ RowsAgree(tsRow, tsRow.rows)
    <2>1. RowIsSound(tsRow)
        BY <1>1 DEF StoreInv
    <2>2. PICK s \in Seq(LifecycleEvent) : s = tsRow.events
        BY <2>1 DEF RowIsSound, TournamentRow
    <2>3. s /= <<>> /\ Len(s) <= LastLifecycle
        BY <2>1, <2>2 DEF RowIsSound, ValidLifecycle
    <2>4. Len(s) \in 1..LastLifecycle
        BY <2>3, StoreAssumption
    <2>5. tsRow.status \in LifecycleStates
        BY <2>1 DEF RowIsSound, TournamentRow
    <2> QED BY <2>1, <2>2, <2>4, <2>5 DEF RowIsSound, HeaderAgrees
<1>2. ASSUME NEW c \in StoreClients
      PROVE  /\ tsOps[c].kind \in {"idle", "transition", "load", "done"}
             /\ (tsOps[c].kind = "done" /\ tsOps[c].result = "loaded") =>
                    /\ tsOps[c].header.status = Last(tsOps[c].events).state
                    /\ tsOps[c].header.updated = Last(tsOps[c].events).at
             /\ (tsOps[c].kind = "done" /\ tsOps[c].result = "corrupt") =>
                    tsOps[c].header.events /= tsOps[c].events
    <2>1. PICK call : call = tsOps[c]
        OBVIOUS
    <2>2. CallIsSound(call, tsRow)
        BY <2>1 DEF StoreInv
    <2>3. call.kind \in {"idle", "transition", "load", "done"}
        BY <2>2 DEF CallIsSound, Idle, OtherAnswer, TransitionCall, LoadCall, LoadAnswer
    <2>4. (call.kind = "done" /\ call.result \in {"loaded", "corrupt"}) =>
            /\ call.result = "loaded" => HeaderAgrees(call.header, call.events)
            /\ call.result = "corrupt" => call.header.events /= call.events
        BY <2>2 DEF CallIsSound, Idle, OtherAnswer, OtherAnswers, TransitionCall, LoadCall, LoadAnswer
    <2> QED BY <2>1, <2>3, <2>4 DEF HeaderAgrees
<1> QED BY <1>1, <1>2 DEF StoreInv, StoreTypeOK, StoredIsLoadable, LoadIsOneMoment

\* Tournaments: whatever transitions and loads race, an acknowledged
\* transition is in the lifecycle, what is stored loads, a load answers with
\* one moment, and history is only appended to and ends with the tournament.
THEOREM StoreIsSafe == StoreSpec => StoreSafety
<1>1. StoreInit => StoreInv
    BY DEF StoreInit, StoreInv, AcknowledgedIsStored, CallIsSound
<1>2. StoreInv /\ [StoreNext]_storeVars => StoreInv'
    <2>1. ASSUME StoreInv, UNCHANGED storeVars
          PROVE  StoreInv'
        BY <2>1 DEF StoreInv, storeVars, AcknowledgedIsStored
    <2> QED BY <2>1, StoreStepIsSound
<1>3. StoreInv => StoreTypeOK /\ StoredIsLoadable /\ AcknowledgedIsStored /\ LoadIsOneMoment
    BY StoreInvIsSafe
<1>4. StoreInv /\ [StoreNext]_storeVars =>
        [tsRow /= NoTournament =>
            /\ IsPrefix(tsRow.events, tsRow'.events)
            /\ tsRow'.schedule = tsRow.schedule /\ tsRow'.rows = tsRow.rows
            /\ tsRow.status \in {"finished", "cancelled"} => tsRow' = tsRow]_tsRow
    <2>1. ASSUME StoreInv, StoreNext
          PROVE  RowStep
        BY <2>1, StoreStepIsSound
    <2> QED BY <2>1 DEF RowStep, storeVars
<1> QED BY <1>1, <1>2, <1>3, <1>4, PTL DEF StoreSpec, StoreSafety, HistoryIsKept

-----------------------------------------------------------------------------
(* Exports *)

Envelopes == { Envelope(r, audience, carried) : r \in Records, audience \in Audiences, carried \in Records }
Chunk == [envelope: Envelopes, bytes: Nat]

\* Every chunk that reached the writer was verified just before.
StreamIsVerified ==
    /\ exStream \in Seq(Chunk)
    /\ \A i \in DOMAIN exStream :
        verify(exStream[i].envelope) /\ exStream[i].envelope.record \in Records

\* While the writer has not failed, the exporter's state is that of the stream.
ExporterIsTheStream ==
    /\ exExporter.count = Len(exStream) /\ exExporter.digest = exStream
    /\ StreamBytes(exStream, exExporter.total)
    /\ exStream = <<>> => exExporter.last = {}
    /\ exStream /= <<>> => exExporter.last = {exStream[Len(exStream)].envelope.record}

ExportInv ==
    /\ StreamIsVerified /\ StreamIsOrdered
    /\ exExporter.total \in 0..MaxTotalBytes
    /\ exExporter.count \in Nat /\ exExporter.count <= Len(exStream)
    /\ ~exFailed => ExporterIsTheStream
    /\ exSummary = << >> \/
            exSummary = [record_count |-> exExporter.count, byte_count |-> exExporter.total,
                         checksum |-> exExporter.digest]

\* One more chunk within the limit adds its bytes.
LEMMA OneMoreChunk ==
    ASSUME NEW s \in Seq(Chunk), NEW chunk \in Chunk, NEW n \in 0..MaxTotalBytes, StreamBytes(s, n),
           n + chunk.bytes <= MaxTotalBytes
    PROVE  StreamBytes(Append(s, chunk), n + chunk.bytes)
<1>1. PICK total \in [0..Len(s) -> 0..MaxTotalBytes] :
        /\ total[0] = 0 /\ total[Len(s)] = n
        /\ \A i \in 1..Len(s) : total[i] = total[i - 1] + s[i].bytes
    BY DEF StreamBytes
<1>2. PICK t : t = Append(s, chunk)
    OBVIOUS
<1>3. /\ Len(t) = Len(s) + 1 /\ Len(s) \in Nat /\ t[Len(s) + 1] = chunk
      /\ \A i \in 1..Len(s) : t[i] = s[i]
    BY <1>2, AppendFacts
<1>4. chunk.bytes \in Nat /\ MaxTotalBytes \in Nat
    BY ExportAssumption DEF Chunk
<1>5. PICK sums : sums = [i \in 0..Len(t) |-> IF i = Len(t) THEN n + chunk.bytes ELSE total[i]]
    OBVIOUS
<1>6. /\ sums \in [0..Len(t) -> 0..MaxTotalBytes]
      /\ sums[Len(t)] = n + chunk.bytes /\ \A i \in 0..Len(s) : sums[i] = total[i]
    BY <1>3, <1>4, <1>5
<1>7. sums[0] = 0
    BY <1>1, <1>3, <1>6
<1>8. ASSUME NEW i \in 1..Len(t)
      PROVE  sums[i] = sums[i - 1] + t[i].bytes
    <2>1. CASE i \in 1..Len(s)
        <3>1. i \in 0..Len(s) /\ i - 1 \in 0..Len(s)
            BY <1>3, <2>1
        <3>2. sums[i] = total[i] /\ sums[i - 1] = total[i - 1] /\ t[i] = s[i]
            BY <1>3, <1>6, <2>1, <3>1
        <3>3. total[i] = total[i - 1] + s[i].bytes
            BY <1>1, <2>1
        <3> QED BY <3>2, <3>3
    <2>2. CASE i = Len(t)
        <3>1. sums[i] = n + chunk.bytes /\ i - 1 = Len(s) /\ sums[i - 1] = n /\ t[i] = chunk
            BY <2>2, <1>1, <1>3, <1>6
        <3> QED BY <3>1
    <2> QED BY <2>1, <2>2, <1>3
<1>9. StreamBytes(t, n + chunk.bytes)
    BY <1>6, <1>7, <1>8 DEF StreamBytes
<1> QED BY <1>2, <1>9

\* What the writer gets is a chunk of the stream, verified.
LEMMA ChunkIsVerified ==
    ASSUME StreamIsVerified, NEW e \in Envelopes, verify(e), e.record \in Records,
           NEW bytes \in Nat, NEW chunk, chunk = [envelope |-> e, bytes |-> bytes],
           exStream' = Append(exStream, chunk)
    PROVE  /\ StreamIsVerified' /\ chunk \in Chunk /\ chunk.envelope = e /\ chunk.bytes = bytes
           /\ Len(exStream') = Len(exStream) + 1 /\ Len(exStream) \in Nat
           /\ exStream'[Len(exStream) + 1] = chunk /\ exStream' /= <<>>
           /\ \A i \in 1..Len(exStream) : exStream'[i] = exStream[i]
<1>1. chunk \in Chunk /\ chunk.envelope = e /\ chunk.bytes = bytes
    BY DEF Chunk
<1>2. PICK s \in Seq(Chunk) : s = exStream
    BY DEF StreamIsVerified
<1>3. /\ exStream' \in Seq(Chunk) /\ Len(exStream') = Len(s) + 1 /\ Len(s) \in Nat
      /\ DOMAIN exStream' = 1..Len(s) + 1 /\ DOMAIN s = 1..Len(s)
      /\ exStream'[Len(s) + 1] = chunk /\ \A i \in 1..Len(s) : exStream'[i] = s[i]
    BY <1>1, <1>2, AppendFacts
<1>4. ASSUME NEW i \in DOMAIN exStream'
      PROVE  verify(exStream'[i].envelope) /\ exStream'[i].envelope.record \in Records
    <2>1. CASE i = Len(s) + 1
        BY <2>1, <1>1, <1>3
    <2>2. CASE i \in 1..Len(s)
        <3>1. exStream'[i] = exStream[i] /\ i \in DOMAIN exStream
            BY <2>2, <1>2, <1>3
        <3> QED BY <3>1 DEF StreamIsVerified
    <2> QED BY <2>1, <2>2, <1>3
<1> QED BY <1>1, <1>2, <1>3, <1>4 DEF StreamIsVerified

\* Every step keeps the exporter and the stream together.
LEMMA ExportStepIsSound ==
    ASSUME ExportInv, ExportNext
    PROVE  ExportInv'
<1>1. ASSUME NEW r \in Records, NEW audience \in Audiences,
             NEW carried \in {r, [r EXCEPT !.content = "private"]},
             NEW e, e = Envelope(r, audience, carried),
             WriteAccepted(e) \/ WriteFails(e) \/ WriteRefused(e)
      PROVE  ExportInv'
    <2>1. carried \in Records
        BY DEF Records
    <2>2. e \in Envelopes /\ e.record = carried
        BY <1>1, <2>1 DEF Envelopes, Envelope
    <2>3. e.record \in Records /\ e.record.size \in Nat
        BY <2>1, <2>2, ExportAssumption DEF Records
    <2>4. CASE WriteAccepted(e)
        <3>1. PICK chunk : chunk = [envelope |-> e, bytes |-> e.record.size + 1]
            OBVIOUS
        <3>2. verify(e) /\ exStream' = Append(exStream, chunk) /\ exSummary = << >>
              /\ UNCHANGED <<exFailed, exSummary>>
            BY <2>4, <3>1 DEF WriteAccepted
        <3>3. /\ StreamIsVerified' /\ chunk \in Chunk /\ chunk.envelope = e
              /\ chunk.bytes = e.record.size + 1
              /\ Len(exStream') = Len(exStream) + 1 /\ Len(exStream) \in Nat
              /\ exStream'[Len(exStream) + 1] = chunk /\ exStream' /= <<>>
              /\ \A i \in 1..Len(exStream) : exStream'[i] = exStream[i]
            <4>1. e.record.size + 1 \in Nat
                BY <2>3
            <4> QED BY <4>1, <3>1, <3>2, <2>2, <2>3, ChunkIsVerified DEF ExportInv
        <3>4. /\ exExporter'.total = exExporter.total + e.record.size + 1
              /\ exExporter'.count = exExporter.count + 1
              /\ exExporter'.last = {e.record} /\ exExporter'.digest = exStream'
            BY <2>4 DEF WriteAccepted
        <3>5. exExporter.total + e.record.size + 1 <= MaxTotalBytes
            BY <2>4 DEF WriteAccepted, Fits
        <3>6. /\ exExporter'.total \in 0..MaxTotalBytes
              /\ exExporter'.count \in Nat /\ exExporter'.count <= Len(exStream')
            BY SMTT(40), <3>3, <3>4, <3>5, <2>3, ExportAssumption DEF ExportInv
        <3>7. ASSUME ~exFailed
              PROVE  ExporterIsTheStream'
            <4>1. ExporterIsTheStream
                BY <3>7 DEF ExportInv
            <4>2. PICK n \in 0..MaxTotalBytes : n = exExporter.total
                BY DEF ExportInv
            <4>3. StreamBytes(exStream, n) /\ exStream \in Seq(Chunk)
                BY <4>1, <4>2 DEF ExporterIsTheStream, ExportInv, StreamIsVerified
            <4>4. n + chunk.bytes = exExporter'.total /\ n + chunk.bytes <= MaxTotalBytes
                BY <4>2, <3>3, <3>4, <3>5, <2>3
            <4>5. StreamBytes(Append(exStream, chunk), n + chunk.bytes)
                BY <4>3, <4>4, <3>3, OneMoreChunk
            <4>6. StreamBytes(exStream', exExporter'.total)
                BY <4>4, <4>5, <3>2
            <4>7. exExporter'.count = Len(exStream')
                BY <4>1, <3>3, <3>4 DEF ExporterIsTheStream
            <4>8. exExporter'.last = {exStream'[Len(exStream')].envelope.record}
                BY <3>3, <3>4
            <4> QED BY <4>6, <4>7, <4>8, <3>3, <3>4 DEF ExporterIsTheStream
        <3>8. StreamIsOrdered'
            <4>1. SUFFICES ASSUME ~exFailed, NEW i \in 1..Len(exStream') - 1
                           PROVE  KeyBefore(exStream'[i].envelope.record,
                                            exStream'[i + 1].envelope.record)
                BY <3>2 DEF StreamIsOrdered
            <4>2. CASE i \in 1..Len(exStream) - 1
                <5>1. exStream'[i] = exStream[i] /\ exStream'[i + 1] = exStream[i + 1]
                    BY <4>2, <3>3
                <5> QED BY <4>1, <4>2, <5>1 DEF ExportInv, StreamIsOrdered
            <4>3. CASE i = Len(exStream)
                <5>1. exStream \in Seq(Chunk) /\ Len(exStream) > 0
                    BY <4>3, <3>3 DEF ExportInv, StreamIsVerified
                <5>2. exStream /= <<>>
                    BY <5>1
                <5>3. exExporter.last = {exStream[i].envelope.record}
                    BY <4>1, <4>3, <5>2 DEF ExportInv, ExporterIsTheStream
                <5>4. KeyBefore(exStream[i].envelope.record, e.record)
                    BY <5>3, <2>4 DEF WriteAccepted, AfterLast
                <5>5. exStream'[i] = exStream[i] /\ exStream'[i + 1].envelope = e
                    BY <4>3, <5>1, <3>3
                <5> QED BY <5>4, <5>5
            <4>4. i \in 1..Len(exStream) - 1 \/ i = Len(exStream)
                BY <3>3
            <4> QED BY <4>2, <4>3, <4>4
        <3> QED BY <3>2, <3>3, <3>6, <3>7, <3>8 DEF ExportInv
    <2>5. CASE WriteFails(e)
        <3>1. PICK chunk : chunk = [envelope |-> e, bytes |-> e.record.size]
            OBVIOUS
        <3>2. /\ verify(e) /\ exFailed' = TRUE /\ UNCHANGED <<exExporter, exSummary>>
              /\ exStream' = exStream \/ exStream' = Append(exStream, chunk)
            BY <2>5, <3>1 DEF WriteFails
        <3>3. StreamIsOrdered'
            BY <3>2 DEF StreamIsOrdered
        <3>4. CASE exStream' = exStream
            BY <3>2, <3>3, <3>4 DEF ExportInv, StreamIsVerified
        <3>5. CASE exStream' = Append(exStream, chunk)
            <4>1. StreamIsVerified' /\ Len(exStream') = Len(exStream) + 1 /\ Len(exStream) \in Nat
                BY <3>1, <3>2, <3>5, <2>2, <2>3, ChunkIsVerified DEF ExportInv
            <4>2. exExporter'.count <= Len(exStream')
                BY <4>1, <3>2 DEF ExportInv
            <4> QED BY <4>1, <4>2, <3>2, <3>3 DEF ExportInv
        <3> QED BY <3>2, <3>4, <3>5
    <2>6. CASE WriteRefused(e)
        BY <2>6 DEF WriteRefused, exportVars, ExportInv, StreamIsVerified, StreamIsOrdered,
                    ExporterIsTheStream
    <2> QED BY <1>1, <2>4, <2>5, <2>6
<1>2. CASE finish
    BY <1>2 DEF finish, ExportInv, StreamIsVerified, StreamIsOrdered, ExporterIsTheStream
<1> QED BY <1>1, <1>2 DEF ExportNext

\* The invariant gives what is promised of an export.
LEMMA ExportInvIsSafe ==
    ASSUME ExportInv
    PROVE  ExportSafety
<1>1. ExportTypeOK
    BY DEF ExportInv, ExportTypeOK, StreamIsVerified
<1>2. SummaryIsTheStream
    <2>1. SUFFICES ASSUME exSummary /= << >>, ~exFailed
                   PROVE  /\ exSummary.record_count = Len(exStream)
                          /\ StreamBytes(exStream, exSummary.byte_count)
                          /\ exSummary.checksum = exStream
        BY DEF SummaryIsTheStream
    <2>2. exSummary = [record_count |-> exExporter.count, byte_count |-> exExporter.total,
                       checksum |-> exExporter.digest]
        BY <2>1 DEF ExportInv
    <2>3. /\ exSummary.record_count = exExporter.count /\ exSummary.byte_count = exExporter.total
          /\ exSummary.checksum = exExporter.digest
        BY <2>2
    <2> QED BY <2>1, <2>3 DEF ExportInv, ExporterIsTheStream
<1>3. StreamIsAuthentic
    <2>1. SUFFICES ASSUME NEW i \in DOMAIN exStream, NEW e, e = exStream[i].envelope
                   PROVE  /\ e.checksum.record = e.record
                          /\ e.audience = "public" => /\ e.record.content = "complete"
                                                      /\ e.record.family \notin OperatorOnly
        BY DEF StreamIsAuthentic
    <2>2. verify(e) /\ e.record \in Records
        BY <2>1 DEF ExportInv, StreamIsVerified
    <2>3. e.checksum.record = e.record
        BY <2>2 DEF verify, Content
    <2>4. e.record.content \in {"complete", "torn", "private"}
        BY <2>2 DEF Records
    <2> QED BY <2>2, <2>3, <2>4 DEF verify, validate_record, validate_audience, PublicValue
<1> QED BY <1>1, <1>2, <1>3 DEF ExportInv, ExportSafety

\* Exports: over refused records and a failing writer the stream holds
\* verified records in strictly increasing order, within its limits, nothing
\* private for the public, and the summary describes it byte for byte.
THEOREM ExportIsSafe == ExportSpec => []ExportSafety
<1>1. ExportInit => ExportInv
    <2> SUFFICES ASSUME ExportInit PROVE ExportInv
        OBVIOUS
    <2>1. /\ exExporter.total = 0 /\ exExporter.count = 0 /\ exExporter.last = {} /\ exExporter.digest = <<>>
          /\ exStream = <<>> /\ exSummary = <<>>
        BY DEF ExportInit
    <2>2. exStream \in Seq(Chunk) /\ Len(exStream) = 0 /\ DOMAIN exStream = {}
        BY <2>1
    <2>3. StreamBytes(exStream, 0)
        <3>1. PICK none : none = [i \in 0..0 |-> 0]
            OBVIOUS
        <3>2. none \in [0..0 -> 0..MaxTotalBytes] /\ none[0] = 0
            BY <3>1, ExportAssumption
        <3>3. 1..0 = {}
            OBVIOUS
        <3> QED BY <2>2, <3>2, <3>3 DEF StreamBytes
    <2> QED BY <2>1, <2>2, <2>3, ExportAssumption
            DEF ExportInv, StreamIsVerified, StreamIsOrdered, ExporterIsTheStream
<1>2. ExportInv /\ [ExportNext]_exportVars => ExportInv'
    <2>1. ASSUME ExportInv, UNCHANGED exportVars
          PROVE  ExportInv'
        BY <2>1 DEF exportVars, ExportInv, StreamIsVerified, StreamIsOrdered, ExporterIsTheStream
    <2> QED BY <2>1, ExportStepIsSound
<1>3. ExportInv => ExportSafety
    BY ExportInvIsSafe
<1> QED BY <1>1, <1>2, <1>3, PTL DEF ExportSpec

-----------------------------------------------------------------------------
(* Ratings *)

\* The largest element of a bounded set of numbers.
LEMMA LargestIsMax ==
    ASSUME NEW n \in Nat, NEW S, S \subseteq 1..n, S /= {}
    PROVE  Max(S) \in S /\ \A k \in S : Max(S) >= k
<1>1. PICK T : T = { n - k : k \in S }
    OBVIOUS
<1>0. \A k \in S : n - k \in Nat
    OBVIOUS
<1>2. T \subseteq Nat /\ T /= {}
    BY <1>0, <1>1, Zenon
<1>3. PICK t \in T : \A u \in T : t <= u
    BY <1>2, LeastExists
<1>4. PICK k \in S : t = n - k
    BY <1>1
<1>5. \A j \in S : k >= j
    <2>1. TAKE j \in S
    <2>2. n - j \in T /\ j \in Nat /\ k \in Nat
        BY <1>1
    <2> QED BY <2>2, <1>3, <1>4
<1> QED BY <1>5 DEF Max

\* The periods a caller can send.
Periods ==
    { Period(id, pool, sequence, matches, previous) :
        id \in PeriodIds, pool \in RatingPools, sequence \in Nat,
        matches \in SUBSET DOMAIN RatedMatches,
        previous \in UNION { [es -> RatingValues] : es \in SUBSET RatedEntrants } }

\* The parts of a period.
LEMMA PeriodFacts ==
    ASSUME NEW p \in Periods
    PROVE  /\ p.id \in PeriodIds /\ p.pool \in RatingPools /\ p.sequence \in Nat
           /\ p.matches \subseteq DOMAIN RatedMatches
           /\ \A e \in DOMAIN p.previous : p.previous[e] \in RatingValues
<1>1. PICK id \in PeriodIds, pool \in RatingPools, sequence \in Nat,
           matches \in SUBSET DOMAIN RatedMatches,
           previous \in UNION { [es -> RatingValues] : es \in SUBSET RatedEntrants } :
        p = Period(id, pool, sequence, matches, previous)
    BY DEF Periods
<1>2. /\ p.id = id /\ p.pool = pool /\ p.sequence = sequence /\ p.matches = matches
      /\ p.previous = previous
    BY <1>1 DEF Period
<1>3. \A e \in DOMAIN previous : previous[e] \in RatingValues
    OBVIOUS
<1> QED BY <1>2, <1>3

\* A valid period rates everyone it names within the range.
LEMMA DerivedRatings ==
    ASSUME NEW p \in Periods, ValidPeriod(p)
    PROVE  DOMAIN derive(p) = DOMAIN p.previous /\ \A e \in DOMAIN p.previous : derive(p)[e] \in RatingValues
<1>1. DOMAIN derive(p) = DOMAIN p.previous
    BY DEF derive
<1>2. ASSUME NEW e \in DOMAIN p.previous
      PROVE  derive(p)[e] \in RatingValues
    <2>1. PICK ms : ms = { x \in p.matches : e \in {RatedMatches[x].one, RatedMatches[x].two} }
        OBVIOUS
    <2>2. ms \in SUBSET DOMAIN RatedMatches /\ ms \subseteq p.matches
        BY <2>1, PeriodFacts
    <2>3. PICK results : results = Results(p.matches, p.previous, e)
        OBVIOUS
    <2>4. results = [m \in ms |->
            IF e = RatedMatches[m].one
            THEN [rating |-> p.previous[RatedMatches[m].two], score |-> RatedMatches[m].score]
            ELSE [rating |-> p.previous[RatedMatches[m].one], score |-> SCORE_SCALE - RatedMatches[m].score]]
        BY <2>1, <2>3 DEF Results
    <2>5. ASSUME NEW m \in ms
          PROVE  results[m] \in [rating: RatingValues, score: 0..SCORE_SCALE]
        <3>1. m \in DOMAIN RatedMatches /\ m \in p.matches
            BY <2>2
        <3>2. /\ p.previous[RatedMatches[m].one] \in RatingValues
              /\ p.previous[RatedMatches[m].two] \in RatingValues
            BY <3>1, PeriodFacts DEF ValidPeriod
        <3>3. RatedMatches[m].score \in 0..SCORE_SCALE
            BY <3>1, RatingAssumption
        <3>4. SCORE_SCALE - RatedMatches[m].score \in 0..SCORE_SCALE
            BY <3>3 DEF SCORE_SCALE
        <3> QED BY <2>4, <3>2, <3>3, <3>4
    <2>6. results \in [ms -> [rating: RatingValues, score: 0..SCORE_SCALE]]
        BY <2>4, <2>5
    <2>7. results \in PeriodResults
        BY <2>2, <2>6 DEF PeriodResults
    <2>8. p.opponents[e] = results /\ p.previous[e] \in RatingValues
        BY <2>3, PeriodFacts DEF ValidPeriod
    <2>9. RatingAfter(p.previous[e], p.opponents[e]) \in RatingValues
        BY <2>7, <2>8, RatingAssumption
    <2> QED BY <2>9 DEF derive, update_rating
<1> QED BY <1>1, <1>2

\* One more period extends the ratings by those it derives.
LEMMA RebuiltAppend ==
    ASSUME NEW s \in Seq(Periods), NEW p \in Periods
    PROVE  Rebuilt(Append(s, p)) = Extended(Rebuilt(s), derive(p))
<1>1. PICK t : t = Append(s, p)
    OBVIOUS
<1>2. /\ DOMAIN t = 1..Len(s) + 1 /\ DOMAIN s = 1..Len(s) /\ Len(s) \in Nat
      /\ t[Len(s) + 1] = p /\ \A k \in 1..Len(s) : t[k] = s[k] /\ k \in 1..Len(s) + 1
    BY <1>1, AppendFacts
<1>3. Len(s) + 1 \in 1..Len(s) + 1 /\ \A k \in 1..Len(s) + 1 : k \in 1..Len(s) \/ k = Len(s) + 1
    BY <1>2
<1>4. DOMAIN derive(p) = DOMAIN p.previous
    BY DEF derive
<1>5. DOMAIN Rebuilt(t) = UNION { DOMAIN t[k].previous : k \in DOMAIN t }
      /\ DOMAIN Rebuilt(s) = UNION { DOMAIN s[k].previous : k \in DOMAIN s }
    BY DEF Rebuilt
<1>6. DOMAIN Rebuilt(t) = DOMAIN Rebuilt(s) \cup DOMAIN p.previous
    <2>1. ASSUME NEW e \in DOMAIN Rebuilt(t)
          PROVE  e \in DOMAIN Rebuilt(s) \cup DOMAIN p.previous
        <3>1. PICK k \in DOMAIN t : e \in DOMAIN t[k].previous
            BY <1>5
        <3>2. CASE k \in 1..Len(s)
            BY <3>1, <3>2, <1>2, <1>5
        <3>3. CASE k = Len(s) + 1
            BY <3>1, <3>3, <1>2
        <3> QED BY <3>2, <3>3, <1>2, <1>3
    <2>2. ASSUME NEW e \in DOMAIN Rebuilt(s)
          PROVE  e \in DOMAIN Rebuilt(t)
        <3>1. PICK k \in DOMAIN s : e \in DOMAIN s[k].previous
            BY <1>5
        <3> QED BY <3>1, <1>2, <1>5
    <2>3. ASSUME NEW e \in DOMAIN p.previous
          PROVE  e \in DOMAIN Rebuilt(t)
        BY <1>2, <1>3, <1>5
    <2> QED BY <2>1, <2>2, <2>3
<1>7. ASSUME NEW e \in DOMAIN Rebuilt(t)
      PROVE  Rebuilt(t)[e] = IF e \in DOMAIN p.previous THEN derive(p)[e] ELSE Rebuilt(s)[e]
    <2>1. Rebuilt(t)[e] = derive(t[Max(RatedIn(t, e))])[e]
        BY <1>5 DEF Rebuilt
    <2>2. CASE e \in DOMAIN p.previous
        <3>1. RatedIn(t, e) \subseteq 1..Len(s) + 1 /\ Len(s) + 1 \in RatedIn(t, e) /\ Len(s) + 1 \in Nat
            BY <2>2, <1>2, <1>3 DEF RatedIn
        <3>2. PICK m : m = Max(RatedIn(t, e))
            OBVIOUS
        <3>3. m \in RatedIn(t, e) /\ m >= Len(s) + 1
            BY <3>1, <3>2, LargestIsMax
        <3>4. m = Len(s) + 1
            BY <3>1, <3>3
        <3> QED BY <2>1, <2>2, <3>2, <3>4, <1>2
    <2>3. CASE e \notin DOMAIN p.previous
        <3>1. RatedIn(t, e) = RatedIn(s, e)
            BY <2>3, <1>2, <1>3 DEF RatedIn
        <3>2. e \in DOMAIN Rebuilt(s)
            BY <2>3, <1>6
        <3>3. Rebuilt(s)[e] = derive(s[Max(RatedIn(s, e))])[e]
            BY <3>2, <1>5 DEF Rebuilt
        <3>4. RatedIn(s, e) /= {} /\ RatedIn(s, e) \subseteq 1..Len(s)
            BY <3>2, <1>2, <1>5 DEF RatedIn
        <3>5. Max(RatedIn(s, e)) \in 1..Len(s)
            BY <3>4, <1>2, LargestIsMax
        <3> QED BY <2>1, <2>3, <3>1, <3>3, <3>5, <1>2
    <2> QED BY <2>2, <2>3
<1>8. Rebuilt(t) = [e \in DOMAIN Rebuilt(t) |-> Rebuilt(t)[e]]
    BY DEF Rebuilt
<1>9. Rebuilt(t) = Extended(Rebuilt(s), derive(p))
    BY <1>4, <1>6, <1>7, <1>8 DEF Extended
<1> QED BY <1>1, <1>9

\* A period that starts from the ratings before it keeps the chain whole.
LEMMA ChainedAppend ==
    ASSUME NEW s \in Seq(Periods), NEW p \in Periods, Chained(s),
           \A e \in DOMAIN p.previous \cap DOMAIN Rebuilt(s) : p.previous[e] = Rebuilt(s)[e]
    PROVE  Chained(Append(s, p))
<1>1. PICK t : t = Append(s, p)
    OBVIOUS
<1>2. /\ DOMAIN t = 1..Len(s) + 1 /\ DOMAIN s = 1..Len(s) /\ Len(s) \in Nat
      /\ t[Len(s) + 1] = p /\ \A k \in 1..Len(s) : t[k] = s[k]
    BY <1>1, AppendFacts
<1>3. ASSUME NEW k \in DOMAIN t, NEW before, before = Rebuilt(SubSeq(t, 1, k - 1)),
             NEW e \in DOMAIN t[k].previous \cap DOMAIN before
      PROVE  t[k].previous[e] = before[e]
    <2>1. CASE k = Len(s) + 1
        <3>1. SubSeq(t, 1, k - 1) = s
            BY <2>1, <1>1, <1>2
        <3> QED BY <2>1, <3>1, <1>2, <1>3
    <2>2. CASE k \in 1..Len(s)
        <3>1. SubSeq(t, 1, k - 1) = SubSeq(s, 1, k - 1)
            BY <2>2, <1>1, <1>2
        <3> QED BY <2>2, <3>1, <1>2, <1>3 DEF Chained
    <2>3. k \in 1..Len(s) \/ k = Len(s) + 1
        BY <1>2
    <2> QED BY <2>1, <2>2, <2>3
<1>4. Chained(t)
    BY <1>3 DEF Chained
<1> QED BY <1>1, <1>4

\* A rebuild has read the periods of now or of an earlier moment.
Overtaken(call) == call.pool \in RatingPools /\ Len(call.periods) < Len(rtPeriods[call.pool])
UpToDate(call) == call.pool \in RatingPools /\ call.periods = rtPeriods[call.pool]

RatingCallIsSound(call) ==
    \/ call.kind = "idle"
    \/ call.kind = "commit" /\ call.period \in Periods /\ ValidPeriod(call.period)
    \/ call.kind = "rebuild" /\ (Overtaken(call) \/ UpToDate(call))
    \/ call.kind = "done" /\ call.result \in {"corrupt", "conflict", "unavailable"}
    \/ /\ call.kind = "done" /\ call.result \in {"applied", "already_applied"}
       /\ call.period \in AllPeriods
    \/ call.kind = "done" /\ call.result = "rebuilt" /\ Rebuilt(call.op.periods) = call.seen
    \/ call.kind = "done" /\ call.result = "rebuild_corrupt" /\ Overtaken(call.op)

\* The periods of a pool are valid, numbered and its own, and have rows.
HistoryIsSound ==
    /\ rtPeriods \in [RatingPools -> Seq(Periods)]
    /\ \A pool \in RatingPools : \A k \in DOMAIN rtPeriods[pool] :
        LET p == rtPeriods[pool][k] IN
        ValidPeriod(p) /\ p.pool = pool /\ p.sequence = k - 1 /\ p.id \in DOMAIN rtRows

CurrentIsTyped ==
    /\ DOMAIN rtCurrent = RatingPools
    /\ \A pool \in RatingPools : \A e \in DOMAIN rtCurrent[pool] : rtCurrent[pool][e] \in RatingValues

RatingInv ==
    /\ HistoryIsSound /\ CurrentIsTyped /\ CurrentIsRebuilt /\ RatedOnce
    /\ DOMAIN rtOps = Raters /\ \A c \in Raters : RatingCallIsSound(rtOps[c])

\* A period is in the history at a place of a pool.
LEMMA InHistory ==
    ASSUME NEW p
    PROVE  p \in AllPeriods <=> \E pool \in RatingPools : \E k \in DOMAIN rtPeriods[pool] : p = rtPeriods[pool][k]
BY DEF AllPeriods, ToSet

\* A step of one call that leaves the ratings alone keeps the invariant.
LEMMA RatingCallStep ==
    ASSUME RatingInv, NEW c \in Raters, NEW call, RatingCallIsSound(call),
           rtOps' = [rtOps EXCEPT ![c] = call], UNCHANGED <<rtPeriods, rtRows, rtCurrent>>
    PROVE  RatingInv'
<1>1. DOMAIN rtOps' = Raters /\ \A d \in Raters : rtOps'[d] = IF d = c THEN call ELSE rtOps[d]
    BY DEF RatingInv
<1>2. AllPeriods' = AllPeriods
    BY DEF AllPeriods
<1>3. ASSUME NEW d \in Raters
      PROVE  RatingCallIsSound(rtOps[d])' 
    <2>1. PICK q : q = rtOps'[d]
        OBVIOUS
    <2>2. RatingCallIsSound(q)
        BY <1>1, <2>1 DEF RatingInv
    <2>3. RatingCallIsSound(q)'
        BY <2>2, <1>2 DEF RatingCallIsSound, Overtaken, UpToDate
    <2> QED BY <2>1, <2>3
<1>4. HistoryIsSound' /\ CurrentIsTyped' /\ RatedOnce'
    BY DEF RatingInv, HistoryIsSound, CurrentIsTyped, RatedOnce
<1>5. CurrentIsRebuilt'
    BY DEF RatingInv, CurrentIsRebuilt, NormalizedRowsAgree
<1> QED BY <1>1, <1>3, <1>4, <1>5 DEF RatingInv

\* What the transaction of a commit writes next to its answer.
Commits(p) ==
    /\ validate_sequence(p) /\ PreviousIsCurrent(p) /\ Collisions(p) = {}
    /\ rtPeriods' = [rtPeriods EXCEPT ![p.pool] = Append(@, p)]
    /\ rtRows' = Extended(rtRows, [id \in {p.id} |-> NormalizedRows(p)])
    /\ rtCurrent' = [rtCurrent EXCEPT ![p.pool] = Extended(@, derive(p))]

\* A commit adds the one period to the end of its pool.
LEMMA CommitAdds ==
    ASSUME RatingInv, NEW p \in Periods, ValidPeriod(p), Commits(p)
    PROVE  /\ \A pool \in RatingPools : pool /= p.pool => rtPeriods'[pool] = rtPeriods[pool]
           /\ rtPeriods'[p.pool] = Append(rtPeriods[p.pool], p)
           /\ DOMAIN rtPeriods'[p.pool] = 1..Len(rtPeriods[p.pool]) + 1
           /\ DOMAIN rtPeriods[p.pool] = 1..Len(rtPeriods[p.pool])
           /\ Len(rtPeriods[p.pool]) \in Nat
           /\ Len(rtPeriods'[p.pool]) = Len(rtPeriods[p.pool]) + 1
           /\ rtPeriods'[p.pool][Len(rtPeriods[p.pool]) + 1] = p
           /\ \A k \in 1..Len(rtPeriods[p.pool]) : rtPeriods'[p.pool][k] = rtPeriods[p.pool][k]
           /\ rtPeriods' \in [RatingPools -> Seq(Periods)]
           /\ \A k \in 1..Len(rtPeriods[p.pool]) + 1 :
                k \in 1..Len(rtPeriods[p.pool]) \/ k = Len(rtPeriods[p.pool]) + 1
<1>1. p.pool \in RatingPools /\ rtPeriods \in [RatingPools -> Seq(Periods)]
    BY PeriodFacts DEF RatingInv, HistoryIsSound
<1>2. PICK s \in Seq(Periods) : s = rtPeriods[p.pool]
    BY <1>1
<1>3. PICK t : t = Append(s, p)
    OBVIOUS
<1>4. /\ t \in Seq(Periods) /\ Len(t) = Len(s) + 1 /\ DOMAIN t = 1..Len(s) + 1
      /\ DOMAIN s = 1..Len(s) /\ Len(s) \in Nat /\ t[Len(s) + 1] = p
      /\ \A k \in 1..Len(s) : t[k] = s[k]
    BY <1>3, AppendFacts
<1>5. rtPeriods' = [rtPeriods EXCEPT ![p.pool] = t]
    BY <1>2, <1>3 DEF Commits
<1>6. /\ rtPeriods'[p.pool] = t /\ rtPeriods' \in [RatingPools -> Seq(Periods)]
      /\ \A pool \in RatingPools : pool /= p.pool => rtPeriods'[pool] = rtPeriods[pool]
    BY <1>1, <1>4, <1>5
<1>7. \A k \in 1..Len(s) + 1 : k \in 1..Len(s) \/ k = Len(s) + 1
    BY <1>4
<1> QED BY <1>2, <1>3, <1>4, <1>6, <1>7

\* The history with the period of a commit: the same as before, and it.
LEMMA CommitHistory ==
    ASSUME RatingInv, NEW p \in Periods, ValidPeriod(p), Commits(p)
    PROVE  p \in AllPeriods' /\ \A q \in AllPeriods : q \in AllPeriods'
<1>1. p.pool \in RatingPools
    BY PeriodFacts
<1>2. Len(rtPeriods[p.pool]) + 1 \in DOMAIN rtPeriods'[p.pool]
    BY CommitAdds
<1>3. rtPeriods'[p.pool][Len(rtPeriods[p.pool]) + 1] = p
    BY CommitAdds
<1>4. \E pool \in RatingPools : \E k \in DOMAIN rtPeriods'[pool] : p = rtPeriods'[pool][k]
    BY <1>1, <1>2, <1>3, Zenon
<1>5. ASSUME NEW q \in AllPeriods
      PROVE  \E pool \in RatingPools : \E k \in DOMAIN rtPeriods'[pool] : q = rtPeriods'[pool][k]
    <2>0. PICK pool \in RatingPools : \E k \in DOMAIN rtPeriods[pool] : q = rtPeriods[pool][k]
        BY InHistory
    <2>1. PICK k \in DOMAIN rtPeriods[pool] : q = rtPeriods[pool][k]
        BY <2>0
    <2>2. CASE pool /= p.pool
        <3>1. rtPeriods'[pool] = rtPeriods[pool]
            BY <2>2, CommitAdds
        <3> QED BY <2>1, <3>1
    <2>3. CASE pool = p.pool
        <3>0. /\ DOMAIN rtPeriods'[p.pool] = 1..Len(rtPeriods[p.pool]) + 1
              /\ DOMAIN rtPeriods[p.pool] = 1..Len(rtPeriods[p.pool]) /\ Len(rtPeriods[p.pool]) \in Nat
              /\ \A i \in 1..Len(rtPeriods[p.pool]) : rtPeriods'[p.pool][i] = rtPeriods[p.pool][i]
            BY CommitAdds
        <3>1. k \in DOMAIN rtPeriods'[pool] /\ rtPeriods'[pool][k] = rtPeriods[pool][k]
            BY <2>1, <2>3, <3>0
        <3> QED BY <2>1, <3>1
    <2> QED BY <2>2, <2>3
<1> QED BY <1>4, <1>5 DEF AllPeriods, ToSet

\* A period that collides with nothing has a new identifier, and no match of
\* its pool.
LEMMA CommitIsNew ==
    ASSUME RatingInv, NEW p \in Periods, Commits(p), NEW pool \in RatingPools,
           NEW k \in DOMAIN rtPeriods[pool]
    PROVE  /\ rtPeriods[pool][k].id /= p.id
           /\ pool = p.pool => rtPeriods[pool][k].matches \cap p.matches = {}
<1>1. PICK q : q = rtPeriods[pool][k]
    OBVIOUS
<1>2. q \in AllPeriods /\ q.pool = pool
    BY <1>1, InHistory DEF RatingInv, HistoryIsSound
<1>3. q \notin Collisions(p)
    BY DEF Commits
<1> QED BY <1>1, <1>2, <1>3 DEF Collisions

\* A commit keeps the projections of the history.
LEMMA CommitIsSound ==
    ASSUME RatingInv, NEW p \in Periods, ValidPeriod(p), Commits(p)
    PROVE  HistoryIsSound' /\ CurrentIsTyped' /\ CurrentIsRebuilt' /\ RatedOnce'
<1> DEFINE s == rtPeriods[p.pool]
           n == Len(rtPeriods[p.pool])
<1>1. /\ p.pool \in RatingPools /\ p.id \in PeriodIds /\ s \in Seq(Periods) /\ n \in Nat
      /\ DOMAIN rtCurrent = RatingPools
    BY PeriodFacts DEF RatingInv, HistoryIsSound, CurrentIsTyped
<1>2. /\ DOMAIN rtRows' = DOMAIN rtRows \cup {p.id} /\ rtRows'[p.id] = NormalizedRows(p)
      /\ \A id \in DOMAIN rtRows : id /= p.id => rtRows'[id] = rtRows[id]
    BY DEF Commits, Extended
<1>3. /\ DOMAIN rtCurrent' = RatingPools
      /\ \A pool \in RatingPools : pool /= p.pool => rtCurrent'[pool] = rtCurrent[pool]
      /\ rtCurrent'[p.pool] = Extended(rtCurrent[p.pool], derive(p))
    BY <1>1 DEF Commits
<1>4. rtCurrent[p.pool] = Rebuilt(s) /\ Chained(s)
    BY <1>1 DEF RatingInv, CurrentIsRebuilt
\* Where a period of the new history comes from.
<1>5. ASSUME NEW pool \in RatingPools, NEW k \in DOMAIN rtPeriods'[pool]
      PROVE  \/ pool = p.pool /\ k = n + 1 /\ rtPeriods'[pool][k] = p
             \/ k \in DOMAIN rtPeriods[pool] /\ rtPeriods'[pool][k] = rtPeriods[pool][k]
    <2>1. CASE pool /= p.pool
        BY <2>1, CommitAdds
    <2>2. CASE pool = p.pool
        BY <2>2, CommitAdds
    <2> QED BY <2>1, <2>2
<1>6. HistoryIsSound'
    <2>1. ASSUME NEW pool \in RatingPools, NEW k \in DOMAIN rtPeriods'[pool],
                 NEW q, q = rtPeriods'[pool][k]
          PROVE  ValidPeriod(q) /\ q.pool = pool /\ q.sequence = k - 1 /\ q.id \in DOMAIN rtRows'
        <3>1. CASE pool = p.pool /\ k = n + 1 /\ rtPeriods'[pool][k] = p
            <4>1. p.sequence = n
                BY DEF Commits, validate_sequence
            <4> QED BY <2>1, <3>1, <4>1, <1>1, <1>2
        <3>2. CASE k \in DOMAIN rtPeriods[pool] /\ rtPeriods'[pool][k] = rtPeriods[pool][k]
            BY <2>1, <3>2, <1>2 DEF RatingInv, HistoryIsSound
        <3> QED BY <3>1, <3>2, <1>5
    <2>2. rtPeriods' \in [RatingPools -> Seq(Periods)]
        BY CommitAdds
    <2> QED BY <2>1, <2>2 DEF HistoryIsSound
<1>7. CurrentIsTyped'
    <2>1. ASSUME NEW pool \in RatingPools, NEW e \in DOMAIN rtCurrent'[pool]
          PROVE  rtCurrent'[pool][e] \in RatingValues
        <3>1. CASE pool /= p.pool
            BY <3>1, <1>3 DEF RatingInv, CurrentIsTyped
        <3>2. CASE pool = p.pool
            <4>1. DOMAIN derive(p) = DOMAIN p.previous
                  /\ \A f \in DOMAIN p.previous : derive(p)[f] \in RatingValues
                BY DerivedRatings
            <4>2. \A f \in DOMAIN rtCurrent[pool] : rtCurrent[pool][f] \in RatingValues
                BY DEF RatingInv, CurrentIsTyped
            <4>3. rtCurrent'[pool] = Extended(rtCurrent[pool], derive(p))
                BY <3>2, <1>3
            <4> QED BY <2>1, <4>1, <4>2, <4>3 DEF Extended
        <3> QED BY <3>1, <3>2
    <2> QED BY <2>1, <1>3 DEF CurrentIsTyped
<1>8. CurrentIsRebuilt'
    <2>1. ASSUME NEW pool \in RatingPools
          PROVE  rtCurrent'[pool] = Rebuilt(rtPeriods'[pool]) /\ Chained(rtPeriods'[pool])
        <3>1. CASE pool /= p.pool
            <4>1. rtPeriods'[pool] = rtPeriods[pool] /\ rtCurrent'[pool] = rtCurrent[pool]
                BY <3>1, <1>3, CommitAdds
            <4>2. rtCurrent[pool] = Rebuilt(rtPeriods[pool]) /\ Chained(rtPeriods[pool])
                BY DEF RatingInv, CurrentIsRebuilt
            <4> QED BY <4>1, <4>2
        <3>2. CASE pool = p.pool
            <4>1. rtPeriods'[pool] = Append(s, p)
                BY <3>2, CommitAdds
            <4>2. Rebuilt(Append(s, p)) = Extended(Rebuilt(s), derive(p))
                BY <1>1, RebuiltAppend
            <4>3. \A e \in DOMAIN p.previous \cap DOMAIN Rebuilt(s) : p.previous[e] = Rebuilt(s)[e]
                BY <1>4 DEF Commits, PreviousIsCurrent
            <4>4. Chained(Append(s, p))
                BY <4>3, <1>1, <1>4, ChainedAppend
            <4>5. rtCurrent'[pool] = Extended(Rebuilt(s), derive(p))
                BY <3>2, <1>3, <1>4
            <4> QED BY <4>1, <4>2, <4>4, <4>5
        <3> QED BY <3>1, <3>2
    <2>2. ASSUME NEW pool \in RatingPools, NEW k \in DOMAIN rtPeriods'[pool],
                 NEW q, q = rtPeriods'[pool][k]
          PROVE  rtRows'[q.id] = NormalizedRows(q)
        <3>1. CASE pool = p.pool /\ k = n + 1 /\ rtPeriods'[pool][k] = p
            BY <2>2, <3>1, <1>2
        <3>2. CASE k \in DOMAIN rtPeriods[pool] /\ rtPeriods'[pool][k] = rtPeriods[pool][k]
            <4>1. q.id \in DOMAIN rtRows /\ rtRows[q.id] = NormalizedRows(q)
                BY <2>2, <3>2 DEF RatingInv, HistoryIsSound, CurrentIsRebuilt, NormalizedRowsAgree
            <4>2. q.id /= p.id
                BY <2>2, <3>2, CommitIsNew
            <4> QED BY <4>1, <4>2, <1>2
        <3> QED BY <3>1, <3>2, <1>5
    <2> QED BY <2>1, <2>2 DEF CurrentIsRebuilt, NormalizedRowsAgree
<1>9. RatedOnce'
    <2>1. ASSUME NEW pool \in RatingPools, NEW j \in DOMAIN rtPeriods'[pool],
                 NEW k \in DOMAIN rtPeriods'[pool], j /= k
          PROVE  rtPeriods'[pool][j].matches \cap rtPeriods'[pool][k].matches = {}
        <3>1. CASE /\ j \in DOMAIN rtPeriods[pool] /\ rtPeriods'[pool][j] = rtPeriods[pool][j]
                   /\ k \in DOMAIN rtPeriods[pool] /\ rtPeriods'[pool][k] = rtPeriods[pool][k]
            BY <2>1, <3>1 DEF RatingInv, RatedOnce
        <3>2. CASE /\ j \in DOMAIN rtPeriods[pool] /\ rtPeriods'[pool][j] = rtPeriods[pool][j]
                   /\ pool = p.pool /\ rtPeriods'[pool][k] = p
            BY <3>2, CommitIsNew
        <3>3. CASE /\ k \in DOMAIN rtPeriods[pool] /\ rtPeriods'[pool][k] = rtPeriods[pool][k]
                   /\ pool = p.pool /\ rtPeriods'[pool][j] = p
            <4>1. rtPeriods[pool][k].matches \cap p.matches = {}
                BY <3>3, CommitIsNew
            <4> QED BY <3>3, <4>1
        <3>4. ~(j = n + 1 /\ k = n + 1)
            BY <2>1
        <3> QED BY <3>1, <3>2, <3>3, <3>4, <1>5, Zenon
    <2> QED BY <2>1 DEF RatedOnce
<1> QED BY <1>6, <1>7, <1>8, <1>9

\* Another call stays sound when a period is committed.
LEMMA CommitLeavesCalls ==
    ASSUME RatingInv, NEW p \in Periods, ValidPeriod(p), Commits(p), NEW call, RatingCallIsSound(call)
    PROVE  RatingCallIsSound(call)'
<1>1. \A q \in AllPeriods : q \in AllPeriods'
    BY CommitHistory
<1>2. /\ \A pool \in RatingPools : pool /= p.pool => rtPeriods'[pool] = rtPeriods[pool]
      /\ Len(rtPeriods'[p.pool]) = Len(rtPeriods[p.pool]) + 1 /\ Len(rtPeriods[p.pool]) \in Nat
    BY CommitAdds
<1>3. ASSUME NEW r, Overtaken(r)
      PROVE  Overtaken(r)'
    <2>1. r.pool \in RatingPools /\ Len(r.periods) < Len(rtPeriods[r.pool])
        BY <1>3 DEF Overtaken
    <2>2. CASE r.pool /= p.pool
        <3>1. rtPeriods'[r.pool] = rtPeriods[r.pool]
            BY <2>1, <2>2, <1>2
        <3> QED BY <2>1, <3>1 DEF Overtaken
    <2>3. CASE r.pool = p.pool
        <3>1. Len(r.periods) < Len(rtPeriods'[r.pool])
            BY <2>1, <2>3, <1>2
        <3> QED BY <2>1, <3>1 DEF Overtaken
    <2> QED BY <2>2, <2>3
<1>4. ASSUME NEW r, UpToDate(r)
      PROVE  Overtaken(r)' \/ UpToDate(r)'
    <2>1. r.pool \in RatingPools /\ r.periods = rtPeriods[r.pool]
        BY <1>4 DEF UpToDate
    <2>2. CASE r.pool /= p.pool
        <3>1. rtPeriods'[r.pool] = rtPeriods[r.pool]
            BY <2>1, <2>2, <1>2
        <3> QED BY <2>1, <3>1 DEF UpToDate
    <2>3. CASE r.pool = p.pool
        <3>1. Len(r.periods) < Len(rtPeriods'[r.pool])
            BY <2>1, <2>3, <1>2
        <3> QED BY <2>1, <3>1 DEF Overtaken
    <2> QED BY <2>2, <2>3
<1>5. CASE call.kind = "rebuild" /\ (Overtaken(call) \/ UpToDate(call))
    BY <1>3, <1>4, <1>5 DEF RatingCallIsSound
<1>6. CASE call.kind = "done" /\ call.result = "rebuild_corrupt" /\ Overtaken(call.op)
    BY <1>3, <1>6 DEF RatingCallIsSound
<1>7. CASE call.kind = "done" /\ call.result \in {"applied", "already_applied"} /\ call.period \in AllPeriods
    BY <1>1, <1>7 DEF RatingCallIsSound
<1> QED BY <1>5, <1>6, <1>7 DEF RatingCallIsSound

\* Every step keeps the ratings the projections of their history.
LEMMA RatingStepIsSound ==
    ASSUME RatingInv, RatingNext
    PROVE  RatingInv'
<1> PICK c \in Raters :
        \/ \E id \in PeriodIds, pool \in RatingPools, sequence \in 0..LastPeriod,
             matches \in SUBSET DOMAIN RatedMatches,
             previous \in UNION { [es -> RatingValues] : es \in SUBSET RatedEntrants } :
                CommitLoad(c, Period(id, pool, sequence, matches, previous))
        \/ CommitTransaction(c)
        \/ \E pool \in RatingPools : RebuildPeriods(c, pool)
        \/ RebuildCompare(c) \/ RatingReturn(c)
    BY DEF RatingNext
<1>0. DOMAIN rtOps = Raters /\ RatingCallIsSound(rtOps[c])
    BY DEF RatingInv
<1>a. ASSUME NEW result \in {"corrupt", "conflict", "unavailable"},
             rtOps' = [rtOps EXCEPT ![c] = RatingDone(result)], UNCHANGED <<rtPeriods, rtRows, rtCurrent>>
      PROVE  RatingInv'
    <2>1. RatingDone(result).kind = "done" /\ RatingDone(result).result = result
        BY DEF RatingDone
    <2>2. RatingCallIsSound(RatingDone(result))
        BY <2>1 DEF RatingCallIsSound
    <2> QED BY <1>a, <2>2, RatingCallStep
<1>1. ASSUME NEW id \in PeriodIds, NEW pool \in RatingPools, NEW sequence \in 0..LastPeriod,
             NEW matches \in SUBSET DOMAIN RatedMatches,
             NEW previous \in UNION { [es -> RatingValues] : es \in SUBSET RatedEntrants },
             CommitLoad(c, Period(id, pool, sequence, matches, previous))
      PROVE  RatingInv'
    <2>1. PICK p : p = Period(id, pool, sequence, matches, previous)
        OBVIOUS
    <2>2. p \in Periods
        <3>1. sequence \in Nat
            BY RatingAssumption
        <3> QED BY <2>1, <3>1 DEF Periods
    <2>3. CommitLoad(c, p) /\ UNCHANGED <<rtPeriods, rtRows, rtCurrent>>
        BY <1>1, <2>1 DEF CommitLoad
    <2>4. CASE rtOps' = [rtOps EXCEPT ![c] = RatingDone("corrupt")]
        BY <2>3, <2>4, <1>a
    <2>5. CASE rtOps' = [rtOps EXCEPT ![c] = RatingDone("conflict")]
        BY <2>3, <2>5, <1>a
    <2>6. CASE ValidPeriod(p) /\ rtOps' = [rtOps EXCEPT ![c] = [kind |-> "commit", period |-> p]]
        <3>1. PICK call : call = [kind |-> "commit", period |-> p]
            OBVIOUS
        <3>2. call.kind = "commit" /\ call.period = p
            BY <3>1
        <3>3. RatingCallIsSound(call)
            BY <2>2, <2>6, <3>2 DEF RatingCallIsSound
        <3> QED BY <2>3, <2>6, <3>1, <3>3, RatingCallStep
    <2>7. CASE /\ \E q \in AllPeriods : q.id = p.id
               /\ \A q \in { q \in AllPeriods : q.id = p.id } : SamePeriod(p, q)
               /\ rtOps' = [rtOps EXCEPT ![c] =
                    [kind |-> "done", result |-> "already_applied", period |-> p]]
        <3>1. PICK call : call = [kind |-> "done", result |-> "already_applied", period |-> p]
            OBVIOUS
        <3>2. call.kind = "done" /\ call.result = "already_applied" /\ call.period = p
            BY <3>1
        <3>3. p \in AllPeriods
            BY <2>7 DEF SamePeriod
        <3>4. RatingCallIsSound(call)
            BY <3>2, <3>3, SMTT(40) DEF RatingCallIsSound
        <3> QED BY <2>3, <2>7, <3>1, <3>4, RatingCallStep
    <2> QED BY <2>3, <2>4, <2>5, <2>6, <2>7 DEF CommitLoad
<1>2. ASSUME CommitTransaction(c)
      PROVE  RatingInv'
    <2>1. PICK call : call = rtOps[c]
        OBVIOUS
    <2>2. PICK p : p = call.period
        OBVIOUS
    <2>3. p \in Periods /\ ValidPeriod(p)
        <3>1. call.kind = "commit" /\ RatingCallIsSound(call)
            BY <1>0, <1>2, <2>1 DEF CommitTransaction
        <3> QED BY <3>1, <2>2 DEF RatingCallIsSound
    <2>4. CASE rtOps' = [rtOps EXCEPT ![c] = RatingDone("unavailable")]
               /\ UNCHANGED <<rtPeriods, rtRows, rtCurrent>>
        BY <2>4, <1>a
    <2>5. CASE rtOps' = [rtOps EXCEPT ![c] = RatingDone("conflict")]
               /\ UNCHANGED <<rtPeriods, rtRows, rtCurrent>>
        BY <2>5, <1>a
    <2>6. CASE /\ Commits(p)
               /\ rtOps' = [rtOps EXCEPT ![c] = [kind |-> "done", result |-> "applied", period |-> p]]
        <3>1. PICK answer : answer = [kind |-> "done", result |-> "applied", period |-> p]
            OBVIOUS
        <3>2. answer.kind = "done" /\ answer.result = "applied" /\ answer.period = p
            BY <3>1
        <3>3. p \in AllPeriods'
            BY <2>3, <2>6, CommitHistory
        <3>4. RatingCallIsSound(answer)'
            BY <3>2, <3>3 DEF RatingCallIsSound
        <3>5. ASSUME NEW d \in Raters
              PROVE  RatingCallIsSound(rtOps[d])'
            <4>1. PICK q : q = rtOps'[d]
                OBVIOUS
            <4>2. CASE d = c
                BY <4>1, <4>2, <3>1, <3>4, <2>6, <1>0
            <4>3. CASE d /= c
                <5>1. q = rtOps[d]
                    BY <4>1, <4>3, <2>6, <1>0
                <5>2. RatingCallIsSound(q)
                    BY <5>1 DEF RatingInv
                <5>3. RatingCallIsSound(q)'
                    BY <5>2, <2>3, <2>6, CommitLeavesCalls
                <5> QED BY <4>1, <5>3
            <4> QED BY <4>2, <4>3
        <3>6. DOMAIN rtOps' = Raters
            BY <2>6, <1>0
        <3>7. HistoryIsSound' /\ CurrentIsTyped' /\ CurrentIsRebuilt' /\ RatedOnce'
            BY <2>3, <2>6, CommitIsSound
        <3> QED BY <3>5, <3>6, <3>7 DEF RatingInv
    <2> QED BY <2>1, <2>2, <2>4, <2>5, <2>6, <1>2 DEF CommitTransaction, Commits
<1>3. ASSUME NEW pool \in RatingPools, RebuildPeriods(c, pool)
      PROVE  RatingInv'
    <2>1. UNCHANGED <<rtPeriods, rtRows, rtCurrent>>
        BY <1>3 DEF RebuildPeriods
    <2>2. CASE rtOps' = [rtOps EXCEPT ![c] = RatingDone("corrupt")]
        BY <2>1, <2>2, <1>a
    <2>3. CASE rtOps' = [rtOps EXCEPT ![c] =
                    [kind |-> "rebuild", pool |-> pool, periods |-> rtPeriods[pool]]]
        <3>1. PICK call : call = [kind |-> "rebuild", pool |-> pool, periods |-> rtPeriods[pool]]
            OBVIOUS
        <3>2. call.kind = "rebuild" /\ call.pool = pool /\ call.periods = rtPeriods[pool]
            BY <3>1
        <3>3. RatingCallIsSound(call)
            BY <3>2 DEF RatingCallIsSound, UpToDate
        <3> QED BY <2>1, <2>3, <3>1, <3>3, RatingCallStep
    <2> QED BY <2>2, <2>3, <1>3 DEF RebuildPeriods
<1>4. ASSUME RebuildCompare(c)
      PROVE  RatingInv'
    <2>1. PICK call : call = rtOps[c]
        OBVIOUS
    <2>2. call.kind = "rebuild" /\ (Overtaken(call) \/ UpToDate(call))
        <3>1. call.kind = "rebuild" /\ RatingCallIsSound(call)
            BY <1>0, <1>4, <2>1 DEF RebuildCompare
        <3> QED BY <3>1 DEF RatingCallIsSound
    <2>3. PICK answer :
            answer = [kind |-> "done", op |-> call, seen |-> rtCurrent[call.pool],
                      result |-> IF rtCurrent[call.pool] = Rebuilt(call.periods)
                                 THEN "rebuilt" ELSE "rebuild_corrupt"]
        OBVIOUS
    <2>4. /\ answer.kind = "done" /\ answer.op = call /\ answer.seen = rtCurrent[call.pool]
          /\ answer.result = IF rtCurrent[call.pool] = Rebuilt(call.periods)
                             THEN "rebuilt" ELSE "rebuild_corrupt"
        BY <2>3
    <2>5. CASE rtCurrent[call.pool] = Rebuilt(call.periods)
        <3>1. RatingCallIsSound(answer)
            BY <2>4, <2>5 DEF RatingCallIsSound
        <3> QED BY <1>4, <2>1, <2>3, <3>1, RatingCallStep DEF RebuildCompare
    <2>6. CASE rtCurrent[call.pool] /= Rebuilt(call.periods)
        <3>1. ~UpToDate(call)
            BY <2>6 DEF UpToDate, RatingInv, CurrentIsRebuilt
        <3>2. RatingCallIsSound(answer)
            BY <2>2, <2>4, <2>6, <3>1 DEF RatingCallIsSound
        <3> QED BY <1>4, <2>1, <2>3, <3>2, RatingCallStep DEF RebuildCompare
    <2> QED BY <2>5, <2>6
<1>5. ASSUME RatingReturn(c)
      PROVE  RatingInv'
    <2>1. RatingCallIsSound(RatingIdle)
        BY DEF RatingCallIsSound, RatingIdle
    <2> QED BY <1>5, <2>1, RatingCallStep DEF RatingReturn
<1> QED BY <1>1, <1>2, <1>3, <1>4, <1>5

\* The invariant gives what is promised of the ratings.
LEMMA RatingInvIsSafe ==
    ASSUME RatingInv
    PROVE  RatingSafety
<1>1. ASSUME NEW c \in Raters
      PROVE  /\ rtOps[c].kind \in {"idle", "commit", "rebuild", "done"}
             /\ (rtOps[c].kind = "done" /\ rtOps[c].result \in {"applied", "already_applied"}) =>
                    rtOps[c].period \in AllPeriods
             /\ rtOps[c].kind = "done" =>
                    /\ rtOps[c].result = "rebuilt" => Rebuilt(rtOps[c].op.periods) = rtOps[c].seen
                    /\ rtOps[c].result = "rebuild_corrupt" =>
                            rtOps[c].op.periods /= rtPeriods[rtOps[c].op.pool]
    <2>1. PICK call : call = rtOps[c]
        OBVIOUS
    <2>2. RatingCallIsSound(call)
        BY <2>1 DEF RatingInv
    <2>3. ASSUME NEW r, Overtaken(r)
          PROVE  r.periods /= rtPeriods[r.pool]
        <3>1. Len(rtPeriods[r.pool]) \in Nat
            BY <2>3 DEF Overtaken, RatingInv, HistoryIsSound
        <3> QED BY <2>3, <3>1 DEF Overtaken
    <2>4. /\ call.kind \in {"idle", "commit", "rebuild", "done"}
          /\ (call.kind = "done" /\ call.result \in {"applied", "already_applied"}) => call.period \in AllPeriods
          /\ call.kind = "done" =>
                /\ call.result = "rebuilt" => Rebuilt(call.op.periods) = call.seen
                /\ call.result = "rebuild_corrupt" => Overtaken(call.op)
        BY <2>2 DEF RatingCallIsSound
    <2> QED BY <2>1, <2>3, <2>4
<1>2. RatingTypeOK
    BY <1>1 DEF RatingInv, HistoryIsSound, CurrentIsTyped, RatingTypeOK
<1>3. AppliedIsInHistory /\ RebuildIsOneMoment
    BY <1>1 DEF AppliedIsInHistory, RebuildIsOneMoment
<1> QED BY <1>2, <1>3 DEF RatingInv, RatingSafety

\* Ratings: whatever commits and rebuilds race, the current ratings and the
\* rows are what the committed periods give, no match counts twice in a pool,
\* an acknowledged period is in the history, and a rebuild answers for one
\* moment unless a commit overtook it.
THEOREM RatingIsSafe == RatingSpec => []RatingSafety
<1>1. RatingInit => RatingInv
    <2> SUFFICES ASSUME RatingInit PROVE RatingInv
        OBVIOUS
    <2>1. /\ DOMAIN rtPeriods = RatingPools /\ \A pool \in RatingPools : rtPeriods[pool] = <<>>
          /\ rtPeriods \in [RatingPools -> Seq(Periods)]
          /\ DOMAIN rtCurrent = RatingPools /\ \A pool \in RatingPools : rtCurrent[pool] = NoRows
        BY DEF RatingInit
    <2>2. DOMAIN NoRows = {} /\ NoRows = [x \in {} |-> 0]
        BY DEF NoRows
    <2>3. HistoryIsSound /\ CurrentIsTyped /\ RatedOnce
        BY <2>1, <2>2 DEF HistoryIsSound, CurrentIsTyped, RatedOnce
    <2>4. DOMAIN Rebuilt(<<>>) = {} /\ Rebuilt(<<>>) = [e \in DOMAIN Rebuilt(<<>>) |-> Rebuilt(<<>>)[e]]
        BY DEF Rebuilt
    <2>5. Rebuilt(<<>>) = NoRows
        BY <2>2, <2>4
    <2>6. CurrentIsRebuilt
        BY <2>1, <2>5 DEF CurrentIsRebuilt, Chained
    <2>7. RatingCallIsSound(RatingIdle)
        BY DEF RatingCallIsSound, RatingIdle
    <2>8. DOMAIN rtOps = Raters /\ \A c \in Raters : rtOps[c] = RatingIdle
        BY DEF RatingInit
    <2> QED BY <2>3, <2>6, <2>7, <2>8 DEF RatingInv
<1>2. RatingInv /\ [RatingNext]_ratingVars => RatingInv'
    <2>1. ASSUME RatingInv, UNCHANGED ratingVars
          PROVE  RatingInv'
        <3>1. AllPeriods' = AllPeriods
            BY <2>1 DEF AllPeriods, ratingVars
        <3>2. HistoryIsSound' /\ CurrentIsTyped' /\ RatedOnce'
            BY <2>1 DEF RatingInv, HistoryIsSound, CurrentIsTyped, RatedOnce, ratingVars
        <3>3. CurrentIsRebuilt'
            BY <2>1 DEF RatingInv, CurrentIsRebuilt, NormalizedRowsAgree, ratingVars
        <3>4. \A c \in Raters : RatingCallIsSound(rtOps[c])'
            BY <2>1, <3>1 DEF RatingInv, RatingCallIsSound, Overtaken, UpToDate, ratingVars
        <3> QED BY <2>1, <3>2, <3>3, <3>4 DEF RatingInv, ratingVars
    <2> QED BY <2>1, RatingStepIsSound
<1>3. RatingInv => RatingSafety
    BY RatingInvIsSafe
<1> QED BY <1>1, <1>2, <1>3, PTL DEF RatingSpec

-----------------------------------------------------------------------------
(* Statistics *)

\* The seats a filter selects.
SelectedSeats(filter) == { seat \in StatSeats : filter \in {0, seat} }

\* One observation for every source and selected seat, and no other.
OncePerSeat(os, filter, ids, sources) ==
    /\ DOMAIN os = ids \X SelectedSeats(filter)
    /\ \A id \in ids : \A seat \in SelectedSeats(filter) :
        os[<<id, seat>>] = Observation(id, sources[id], seat)

StatCallIsSound(call, sources) ==
    \/ call.kind = "idle"
    \/ /\ call.kind = "record" /\ call.id \in SourceIds
       /\ call.source.log \in Logs /\ ValidLog(call.source.log) /\ call.source.metric \in Metrics
    \/ /\ call.kind = "rebuild" /\ call.filter \in {0} \cup StatSeats
       /\ call.listed \subseteq DOMAIN sources /\ call.left \subseteq call.listed
       /\ OncePerSeat(call.observations, call.filter, call.listed \ call.left, sources)
    \/ call.kind = "done" /\ call.result \in {"invalid_input", "corrupt", "conflict", "overflow"}
    \/ /\ call.kind = "done" /\ call.result \in {"applied", "already_applied"}
       /\ call.id \in DOMAIN sources /\ sources[call.id] = call.source
    \/ /\ call.kind = "done" /\ call.result = "rebuilt" /\ call.filter \in {0} \cup StatSeats
       /\ call.listed \subseteq DOMAIN sources
       /\ \E os : OncePerSeat(os, call.filter, call.listed, sources)
                  /\ call.aggregate = aggregate_values(os)

SourcesAreSound ==
    /\ DOMAIN stSources \subseteq SourceIds /\ { r.source : r \in stRows } = DOMAIN stSources
    /\ \A id \in DOMAIN stSources :
        stSources[id].log \in Logs /\ ValidLog(stSources[id].log) /\ stSources[id].metric \in Metrics

StatInv ==
    /\ SourcesAreSound /\ DOMAIN stOps = Recorders
    /\ \A c \in Recorders : StatCallIsSound(stOps[c], stSources)

\* What an observation says of its seat and of the tokens.
LEMMA ObservationFacts ==
    ASSUME NEW id, NEW source, NEW seat
    PROVE  Observation(id, source, seat).seat = seat /\ Observation(id, source, seat).tokens = source.metric
BY DEF Observation

\* Sources are only added, so a call that was sound stays so.
LEMMA StatCallStays ==
    ASSUME NEW call, NEW sources, NEW more, StatCallIsSound(call, sources),
           DOMAIN sources \subseteq DOMAIN more, \A id \in DOMAIN sources : more[id] = sources[id]
    PROVE  StatCallIsSound(call, more)
<1>1. ASSUME NEW os, NEW filter, NEW ids, ids \subseteq DOMAIN sources, OncePerSeat(os, filter, ids, sources)
      PROVE  OncePerSeat(os, filter, ids, more)
    BY <1>1, Zenon DEF OncePerSeat
<1>2. CASE /\ call.kind = "rebuild" /\ call.filter \in {0} \cup StatSeats
           /\ call.listed \subseteq DOMAIN sources /\ call.left \subseteq call.listed
           /\ OncePerSeat(call.observations, call.filter, call.listed \ call.left, sources)
    <2>1. call.listed \ call.left \subseteq DOMAIN sources
        BY <1>2
    <2>2. OncePerSeat(call.observations, call.filter, call.listed \ call.left, more)
        BY <1>1, <1>2, <2>1
    <2> QED BY <1>2, <2>2 DEF StatCallIsSound
<1>3. CASE /\ call.kind = "done" /\ call.result = "rebuilt" /\ call.filter \in {0} \cup StatSeats
           /\ call.listed \subseteq DOMAIN sources
           /\ \E os : OncePerSeat(os, call.filter, call.listed, sources)
                      /\ call.aggregate = aggregate_values(os)
    <2>1. PICK os : OncePerSeat(os, call.filter, call.listed, sources)
                    /\ call.aggregate = aggregate_values(os)
        BY <1>3
    <2>2. OncePerSeat(os, call.filter, call.listed, more)
        BY <1>1, <1>3, <2>1
    <2>3. call.listed \subseteq DOMAIN more
        BY <1>3
    <2> QED BY <1>3, <2>1, <2>2, <2>3, Zenon DEF StatCallIsSound
<1>4. CASE /\ call.kind = "done" /\ call.result \in {"applied", "already_applied"}
           /\ call.id \in DOMAIN sources /\ sources[call.id] = call.source
    BY <1>4 DEF StatCallIsSound
<1>5. CASE /\ call.kind = "record" /\ call.id \in SourceIds
           /\ call.source.log \in Logs /\ ValidLog(call.source.log) /\ call.source.metric \in Metrics
    BY <1>5 DEF StatCallIsSound
<1>6. CASE call.kind = "idle"
           \/ (call.kind = "done" /\ call.result \in {"invalid_input", "corrupt", "conflict", "overflow"})
    BY <1>6 DEF StatCallIsSound
<1> QED BY <1>2, <1>3, <1>4, <1>5, <1>6, Zenon DEF StatCallIsSound

\* A step of one call that leaves the sources alone.
LEMMA StatCallStep ==
    ASSUME StatInv, NEW c \in Recorders, NEW call, StatCallIsSound(call, stSources),
           stOps' = [stOps EXCEPT ![c] = call], UNCHANGED <<stSources, stRows>>
    PROVE  StatInv'
<1>1. DOMAIN stOps' = Recorders /\ \A d \in Recorders : stOps'[d] = IF d = c THEN call ELSE stOps[d]
    BY DEF StatInv
<1>2. \A d \in Recorders : StatCallIsSound(stOps'[d], stSources)
    BY <1>1 DEF StatInv
<1> QED BY <1>1, <1>2 DEF StatInv, SourcesAreSound

\* The accumulator with the observations of one more source.
LEMMA OneMoreSource ==
    ASSUME NEW os, NEW filter \in {0} \cup StatSeats, NEW ids, NEW id, NEW sources, id \notin ids,
           OncePerSeat(os, filter, ids, sources)
    PROVE  OncePerSeat(AccumulatorWith(os, filter, id, derive_observations(id, sources[id])),
                       filter, ids \cup {id}, sources)
<1>1. PICK new : new = derive_observations(id, sources[id])
    OBVIOUS
<1>2. \A seat \in StatSeats : new[seat] = Observation(id, sources[id], seat)
    BY <1>1 DEF derive_observations
<1>3. \A seat \in StatSeats : FilterMatches(filter, new[seat]) <=> filter \in {0, seat}
    BY <1>2, ObservationFacts DEF FilterMatches
<1>4. PICK chosen : chosen = { <<id, seat>> : seat \in { s \in StatSeats : FilterMatches(filter, new[s]) } }
    OBVIOUS
<1>5. { s \in StatSeats : FilterMatches(filter, new[s]) } = SelectedSeats(filter)
    BY <1>3 DEF SelectedSeats
<1>6. chosen = {id} \X SelectedSeats(filter)
    BY <1>4, <1>5
<1>7. PICK all : all = AccumulatorWith(os, filter, id, new)
    OBVIOUS
<1>8. all = [key \in DOMAIN os \cup chosen |-> IF key \in chosen THEN new[key[2]] ELSE os[key]]
    BY <1>4, <1>7 DEF AccumulatorWith
<1>9. DOMAIN os = ids \X SelectedSeats(filter)
    BY DEF OncePerSeat
<1>10. DOMAIN all = (ids \cup {id}) \X SelectedSeats(filter)
    BY <1>6, <1>8, <1>9
<1>11. ASSUME NEW i \in ids \cup {id}, NEW seat \in SelectedSeats(filter)
       PROVE  all[<<i, seat>>] = Observation(i, sources[i], seat)
    <2>1. seat \in StatSeats
        BY DEF SelectedSeats
    <2>2. CASE i = id
        <3>1. <<i, seat>> \in chosen /\ <<i, seat>>[2] = seat
            BY <2>2, <1>6
        <3>2. all[<<i, seat>>] = new[seat]
            BY <3>1, <1>8
        <3> QED BY <2>1, <2>2, <3>2, <1>2
    <2>3. CASE i /= id
        <3>1. i \in ids /\ <<i, seat>> \notin chosen
            BY <2>3, <1>6
        <3>2. <<i, seat>> \in DOMAIN os
            BY <3>1, <1>9
        <3>3. all[<<i, seat>>] = os[<<i, seat>>]
            BY <3>1, <3>2, <1>8
        <3> QED BY <3>1, <3>3 DEF OncePerSeat
    <2> QED BY <2>2, <2>3
<1>12. OncePerSeat(all, filter, ids \cup {id}, sources)
    BY <1>10, <1>11, Zenon DEF OncePerSeat
<1> QED BY <1>1, <1>7, <1>12

\* The rows of a source all name it.
LEMMA RowsOfOneSource ==
    ASSUME NEW id, NEW source
    PROVE  { r.source : r \in ObservationRows(id, source) } = {id}
<1>1. \A r \in ObservationRows(id, source) : r.source = id
    BY DEF ObservationRows
<1>2. ObservationRows(id, source) /= {}
    BY DEF ObservationRows, StatSeats
<1> QED BY <1>1, <1>2

\* Every step keeps the sources, and what a rebuild has gathered of them.
LEMMA StatStepIsSound ==
    ASSUME StatInv, StatisticsNext
    PROVE  StatInv'
<1> PICK c \in Recorders :
        \/ \E id \in SourceIds, log \in Logs, metric \in Metrics :
                RecordLoad(c, id, [log |-> log, metric |-> metric])
        \/ RecordTransaction(c)
        \/ \E filter \in {0} \cup StatSeats : RebuildList(c, filter)
        \/ RebuildLoad(c) \/ RebuildAnswer(c) \/ StatReturn(c)
    BY DEF StatisticsNext
<1>0. DOMAIN stOps = Recorders /\ StatCallIsSound(stOps[c], stSources)
    BY DEF StatInv
<1>a. ASSUME NEW result \in {"invalid_input", "corrupt", "conflict", "overflow"},
             stOps' = [stOps EXCEPT ![c] = StatDone(result)], UNCHANGED <<stSources, stRows>>
      PROVE  StatInv'
    <2>1. StatDone(result).kind = "done" /\ StatDone(result).result = result
        BY DEF StatDone
    <2>2. StatCallIsSound(StatDone(result), stSources)
        BY <2>1 DEF StatCallIsSound
    <2> QED BY <1>a, <2>2, StatCallStep
<1>1. ASSUME NEW id \in SourceIds, NEW log \in Logs, NEW metric \in Metrics,
             RecordLoad(c, id, [log |-> log, metric |-> metric])
      PROVE  StatInv'
    <2>1. PICK source : source = [log |-> log, metric |-> metric]
        OBVIOUS
    <2>2. source.log = log /\ source.log \in Logs /\ source.metric \in Metrics
        BY <2>1
    <2>3. RecordLoad(c, id, source) /\ UNCHANGED <<stSources, stRows>>
        BY <1>1, <2>1 DEF RecordLoad
    <2>4. CASE stOps' = [stOps EXCEPT ![c] = StatDone("invalid_input")]
        BY <2>3, <2>4, <1>a
    <2>5. CASE stOps' = [stOps EXCEPT ![c] = StatDone("corrupt")]
        BY <2>3, <2>5, <1>a
    <2>6. CASE stOps' = [stOps EXCEPT ![c] = StatDone("conflict")]
        BY <2>3, <2>6, <1>a
    <2>7. CASE ValidLog(source.log)
               /\ stOps' = [stOps EXCEPT ![c] = [kind |-> "record", id |-> id, source |-> source]]
        <3>1. PICK call : call = [kind |-> "record", id |-> id, source |-> source]
            OBVIOUS
        <3>2. call.kind = "record" /\ call.id = id /\ call.source = source
            BY <3>1
        <3>3. StatCallIsSound(call, stSources)
            BY <2>2, <2>7, <3>2 DEF StatCallIsSound
        <3> QED BY <2>3, <2>7, <3>1, <3>3, StatCallStep
    <2>8. CASE /\ id \in DOMAIN stSources /\ stSources[id] = source
               /\ stOps' = [stOps EXCEPT ![c] = [kind |-> "done", result |-> "already_applied",
                                                 id |-> id, source |-> source]]
        <3>1. PICK call : call = [kind |-> "done", result |-> "already_applied", id |-> id, source |-> source]
            OBVIOUS
        <3>2. call.kind = "done" /\ call.result = "already_applied" /\ call.id = id /\ call.source = source
            BY <3>1
        <3>3. StatCallIsSound(call, stSources)
            BY <2>8, <3>2 DEF StatCallIsSound
        <3> QED BY <2>3, <2>8, <3>1, <3>3, StatCallStep
    <2> QED BY <2>3, <2>4, <2>5, <2>6, <2>7, <2>8 DEF RecordLoad
<1>2. ASSUME RecordTransaction(c)
      PROVE  StatInv'
    <2>1. PICK op : op = stOps[c]
        OBVIOUS
    <2>2. op.kind = "record" /\ StatCallIsSound(op, stSources)
        BY <1>0, <1>2, <2>1 DEF RecordTransaction
    <2>3. /\ op.id \in SourceIds /\ op.source.log \in Logs
          /\ ValidLog(op.source.log) /\ op.source.metric \in Metrics
        BY <2>2 DEF StatCallIsSound
    <2>4. CASE stOps' = [stOps EXCEPT ![c] = StatDone("conflict")] /\ UNCHANGED <<stSources, stRows>>
        BY <2>4, <1>a
    <2>5. CASE /\ op.id \notin DOMAIN stSources
               /\ stSources' = [id \in DOMAIN stSources \cup {op.id} |->
                    IF id = op.id THEN op.source ELSE stSources[id]]
               /\ stRows' = stRows \cup ObservationRows(op.id, op.source)
               /\ stOps' = [stOps EXCEPT ![c] = [kind |-> "done", result |-> "applied", id |-> op.id,
                                                 source |-> op.source]]
        <3>1. PICK more : more = stSources'
            OBVIOUS
        <3>2. /\ DOMAIN more = DOMAIN stSources \cup {op.id} /\ more[op.id] = op.source
              /\ \A id \in DOMAIN stSources : more[id] = stSources[id]
            BY <2>5, <3>1
        <3>3. { r.source : r \in stRows' } = DOMAIN more
            <4>1. { r.source : r \in ObservationRows(op.id, op.source) } = {op.id}
                BY RowsOfOneSource
            <4>2. { r.source : r \in stRows } = DOMAIN stSources
                BY DEF StatInv, SourcesAreSound
            <4> QED BY <2>5, <3>2, <4>1, <4>2
        <3>4. SourcesAreSound'
            BY <2>3, <3>1, <3>2, <3>3 DEF StatInv, SourcesAreSound
        <3>5. PICK answer : answer = [kind |-> "done", result |-> "applied", id |-> op.id, source |-> op.source]
            OBVIOUS
        <3>6. answer.kind = "done" /\ answer.result = "applied" /\ answer.id = op.id /\ answer.source = op.source
            BY <3>5
        <3>7. StatCallIsSound(answer, more)
            BY <3>2, <3>6 DEF StatCallIsSound
        <3>8. ASSUME NEW d \in Recorders
              PROVE  StatCallIsSound(stOps'[d], more)
            <4>1. CASE d = c
                BY <4>1, <1>0, <2>5, <3>5, <3>7
            <4>2. CASE d /= c
                <5>1. stOps'[d] = stOps[d] /\ StatCallIsSound(stOps[d], stSources)
                    BY <4>2, <1>0, <2>5 DEF StatInv
                <5>2. StatCallIsSound(stOps[d], more)
                    BY <5>1, <3>2, StatCallStays
                <5> QED BY <5>1, <5>2
            <4> QED BY <4>1, <4>2
        <3>9. DOMAIN stOps' = Recorders
            BY <1>0, <2>5
        <3> QED BY <3>1, <3>4, <3>8, <3>9 DEF StatInv
    <2> QED BY <1>2, <2>1, <2>4, <2>5 DEF RecordTransaction
<1>3. ASSUME NEW filter \in {0} \cup StatSeats, RebuildList(c, filter)
      PROVE  StatInv'
    <2>1. PICK call : call = [kind |-> "rebuild", filter |-> filter, listed |-> DOMAIN stSources,
                              left |-> DOMAIN stSources, observations |-> NoSources]
        OBVIOUS
    <2>2. /\ call.kind = "rebuild" /\ call.filter = filter /\ call.listed = DOMAIN stSources
          /\ call.left = DOMAIN stSources /\ call.observations = NoSources
        BY <2>1
    <2>3. DOMAIN NoSources = {}
        BY DEF NoSources
    <2>4. OncePerSeat(NoSources, filter, {}, stSources)
        BY <2>3 DEF OncePerSeat
    <2>5. call.listed \ call.left = {}
        BY <2>2
    <2>6. StatCallIsSound(call, stSources)
        BY <2>2, <2>4, <2>5 DEF StatCallIsSound
    <2> QED BY <1>3, <2>1, <2>6, StatCallStep DEF RebuildList
<1>4. ASSUME NEW op, op = stOps[c], op.kind = "rebuild"
      PROVE  /\ op.filter \in {0} \cup StatSeats
             /\ op.listed \subseteq DOMAIN stSources /\ op.left \subseteq op.listed
             /\ OncePerSeat(op.observations, op.filter, op.listed \ op.left, stSources)
    BY <1>0, <1>4 DEF StatCallIsSound
<1>5. ASSUME RebuildLoad(c)
      PROVE  StatInv'
    <2>1. PICK op : op = stOps[c]
        OBVIOUS
    <2>2. op.kind = "rebuild" /\ op.left /= {} /\ UNCHANGED <<stSources, stRows>>
        BY <1>5, <2>1 DEF RebuildLoad
    <2>3. /\ op.filter \in {0} \cup StatSeats
          /\ op.listed \subseteq DOMAIN stSources /\ op.left \subseteq op.listed
          /\ OncePerSeat(op.observations, op.filter, op.listed \ op.left, stSources)
        BY <1>4, <2>1, <2>2
    <2>4. PICK id : id = Min(op.left)
        OBVIOUS
    <2>5. op.left \subseteq Nat
        BY <2>3, StatisticsAssumption DEF StatInv, SourcesAreSound
    <2>6. id \in op.left
        BY <2>2, <2>4, <2>5, LeastExists DEF Min
    <2>7. PICK all : all = AccumulatorWith(op.observations, op.filter, id,
                                           derive_observations(id, stSources[id]))
        OBVIOUS
    <2>8. OncePerSeat(all, op.filter, (op.listed \ op.left) \cup {id}, stSources)
        BY <2>3, <2>6, <2>7, OneMoreSource
    <2>9. (op.listed \ op.left) \cup {id} = op.listed \ (op.left \ {id})
        BY <2>3, <2>6
    <2>10. PICK call : call = [kind |-> "rebuild", filter |-> op.filter, listed |-> op.listed,
                               left |-> op.left \ {id}, observations |-> all]
        OBVIOUS
    <2>11. /\ call.kind = "rebuild" /\ call.filter = op.filter /\ call.listed = op.listed
           /\ call.left = op.left \ {id} /\ call.observations = all
        BY <2>10
    <2>12. StatCallIsSound(call, stSources)
        BY <2>3, <2>8, <2>9, <2>11 DEF StatCallIsSound
    <2>13. CASE stOps' = [stOps EXCEPT ![c] = call]
        BY <2>2, <2>12, <2>13, StatCallStep
    <2>14. CASE stOps' = [stOps EXCEPT ![c] = StatDone("corrupt")]
        BY <2>2, <2>14, <1>a
    <2> QED BY <1>5, <2>1, <2>4, <2>7, <2>10, <2>13, <2>14 DEF RebuildLoad
<1>6. ASSUME RebuildAnswer(c)
      PROVE  StatInv'
    <2>1. PICK op : op = stOps[c]
        OBVIOUS
    <2>2. op.kind = "rebuild" /\ op.left = {} /\ UNCHANGED <<stSources, stRows>>
        BY <1>6, <2>1 DEF RebuildAnswer
    <2>3. /\ op.filter \in {0} \cup StatSeats /\ op.listed \subseteq DOMAIN stSources
          /\ OncePerSeat(op.observations, op.filter, op.listed \ op.left, stSources)
        BY <1>4, <2>1, <2>2
    <2>4. op.listed \ op.left = op.listed
        BY <2>2
    <2>5. PICK a : a = aggregate_values(op.observations)
        OBVIOUS
    <2>6. PICK call : call = [kind |-> "done", result |-> "rebuilt", filter |-> op.filter,
                              listed |-> op.listed, aggregate |-> a]
        OBVIOUS
    <2>7. /\ call.kind = "done" /\ call.result = "rebuilt" /\ call.filter = op.filter
          /\ call.listed = op.listed /\ call.aggregate = a
        BY <2>6
    <2>8. \E os : OncePerSeat(os, op.filter, op.listed, stSources) /\ a = aggregate_values(os)
        BY <2>3, <2>4, <2>5
    <2>9. StatCallIsSound(call, stSources)
        BY <2>3, <2>7, <2>8 DEF StatCallIsSound
    <2>10. CASE stOps' = [stOps EXCEPT ![c] = call]
        BY <2>2, <2>9, <2>10, StatCallStep
    <2>11. CASE stOps' = [stOps EXCEPT ![c] = StatDone("overflow")]
        BY <2>2, <2>11, <1>a
    <2> QED BY <1>6, <2>1, <2>5, <2>6, <2>10, <2>11 DEF RebuildAnswer
<1>7. ASSUME StatReturn(c)
      PROVE  StatInv'
    <2>1. StatCallIsSound(StatIdle, stSources)
        BY DEF StatCallIsSound, StatIdle
    <2> QED BY <1>7, <2>1, StatCallStep DEF StatReturn
<1> QED BY <1>1, <1>2, <1>3, <1>5, <1>6, <1>7

\* The availability of a total, by those of its parts.
LEMMA CombinedAvailability ==
    ASSUME NEW metrics, \A i \in DOMAIN metrics : metrics[i].availability \in {"exact", "estimated", "unavailable"}
    PROVE  LET shown == combine_metrics(metrics).availability IN
           /\ shown = "exact" => /\ DOMAIN metrics /= {}
                                 /\ \A i \in DOMAIN metrics : metrics[i].availability = "exact"
           /\ shown = "unavailable" => \/ DOMAIN metrics = {}
                                       \/ \E i \in DOMAIN metrics : metrics[i].availability = "unavailable"
           /\ shown = "estimated" => \A i \in DOMAIN metrics : metrics[i].availability /= "unavailable"
<1>1. CASE DOMAIN metrics = {} \/ \E i \in DOMAIN metrics : metrics[i].availability = "unavailable"
    <2>1. combine_metrics(metrics) = Unavailable
        BY <1>1 DEF combine_metrics
    <2>2. Unavailable.availability = "unavailable"
        BY DEF Unavailable
    <2> QED BY <1>1, <2>1, <2>2
<1>2. CASE ~(DOMAIN metrics = {} \/ \E i \in DOMAIN metrics : metrics[i].availability = "unavailable")
    <2>1. PICK n : n = TotalValue(metrics)
        OBVIOUS
    <2>2. combine_metrics(metrics) =
            [value |-> n, availability |-> IF \E i \in DOMAIN metrics : metrics[i].availability = "estimated"
                                           THEN "estimated" ELSE "exact"]
        BY <1>2, <2>1 DEF combine_metrics
    <2>3. combine_metrics(metrics).availability =
            IF \E i \in DOMAIN metrics : metrics[i].availability = "estimated" THEN "estimated" ELSE "exact"
        BY <2>2
    <2> QED BY <1>2, <2>3
<1> QED BY <1>1, <1>2

\* The invariant keeps a partial sum from being shown as a total.
LEMMA StatInvShowsNoPartialSum ==
    ASSUME StatInv
    PROVE  PartialIsNotTotal
<1>1. ASSUME NEW c \in Recorders, stOps[c].kind = "done", stOps[c].result = "rebuilt",
             NEW known, known = { stSources[id].metric.availability : id \in stOps[c].listed },
             NEW shown, shown = stOps[c].aggregate.tokens.availability
      PROVE  /\ shown = "exact" => known = {"exact"}
             /\ shown = "unavailable" => stOps[c].listed = {} \/ "unavailable" \in known
             /\ shown = "estimated" => "unavailable" \notin known
    <2>2. PICK call : call = stOps[c]
        OBVIOUS
    <2>3. /\ call.filter \in {0} \cup StatSeats /\ call.listed \subseteq DOMAIN stSources
          /\ \E os : OncePerSeat(os, call.filter, call.listed, stSources)
                     /\ call.aggregate = aggregate_values(os)
        <3>1. StatCallIsSound(call, stSources)
            BY <2>2 DEF StatInv
        <3> QED BY <1>1, <2>2, <3>1 DEF StatCallIsSound
    <2>4. PICK os : OncePerSeat(os, call.filter, call.listed, stSources) /\ call.aggregate = aggregate_values(os)
        BY <2>3
    <2>5. PICK metrics : metrics = [key \in DOMAIN os |-> os[key].tokens]
        OBVIOUS
    <2>6. call.aggregate.tokens = combine_metrics(metrics)
        BY <2>4, <2>5 DEF aggregate_values
    <2>7. DOMAIN metrics = call.listed \X SelectedSeats(call.filter)
        BY <2>4, <2>5 DEF OncePerSeat
    <2>8. ASSUME NEW id \in call.listed, NEW seat \in SelectedSeats(call.filter)
          PROVE  metrics[<<id, seat>>] = stSources[id].metric /\ <<id, seat>> \in DOMAIN metrics
        <3>1. <<id, seat>> \in DOMAIN metrics
            BY <2>7
        <3>2. os[<<id, seat>>] = Observation(id, stSources[id], seat)
            BY <2>4 DEF OncePerSeat
        <3>3. metrics[<<id, seat>>] = os[<<id, seat>>].tokens
            BY <3>1, <2>5
        <3> QED BY <3>1, <3>2, <3>3, ObservationFacts
    <2>9. SelectedSeats(call.filter) /= {}
        BY <2>3 DEF SelectedSeats, StatSeats
    <2>10. PICK seat : seat \in SelectedSeats(call.filter)
        BY <2>9
    <2>11. \A id \in call.listed : stSources[id].metric.availability \in {"exact", "estimated", "unavailable"}
        BY <2>3, StatisticsAssumption DEF StatInv, SourcesAreSound
    <2>12. ASSUME NEW key \in DOMAIN metrics
           PROVE  \E id \in call.listed : metrics[key] = stSources[id].metric
        <3>1. PICK id \in call.listed, s \in SelectedSeats(call.filter) : key = <<id, s>>
            BY <2>7
        <3> QED BY <3>1, <2>8
    <2>13. \A key \in DOMAIN metrics : metrics[key].availability \in {"exact", "estimated", "unavailable"}
        BY <2>11, <2>12
    <2>14. /\ shown = "exact" => /\ DOMAIN metrics /= {}
                                 /\ \A i \in DOMAIN metrics : metrics[i].availability = "exact"
           /\ shown = "unavailable" => \/ DOMAIN metrics = {}
                                       \/ \E i \in DOMAIN metrics : metrics[i].availability = "unavailable"
           /\ shown = "estimated" => \A i \in DOMAIN metrics : metrics[i].availability /= "unavailable"
        BY <1>1, <2>2, <2>6, <2>13, CombinedAvailability
    <2>15. known = { stSources[id].metric.availability : id \in call.listed }
        BY <1>1, <2>2
    <2>16. ASSUME shown = "exact"
           PROVE  known = {"exact"}
        <3>1. \A id \in call.listed : stSources[id].metric.availability = "exact"
            BY <2>8, <2>10, <2>14, <2>16
        <3>2. call.listed /= {}
            <4>1. PICK key : key \in DOMAIN metrics
                BY <2>14, <2>16
            <4> QED BY <4>1, <2>12
        <3> QED BY <3>1, <3>2, <2>15
    <2>17. ASSUME shown = "unavailable", call.listed /= {}
           PROVE  "unavailable" \in known
        <3>1. PICK id : id \in call.listed
            BY <2>17
        <3>2. DOMAIN metrics /= {}
            BY <3>1, <2>8, <2>10
        <3>3. PICK key \in DOMAIN metrics : metrics[key].availability = "unavailable"
            BY <3>2, <2>14, <2>17
        <3>4. PICK i \in call.listed : metrics[key] = stSources[i].metric
            BY <2>12
        <3> QED BY <3>3, <3>4, <2>15
    <2>18. ASSUME shown = "estimated"
           PROVE  "unavailable" \notin known
        <3>1. \A id \in call.listed : stSources[id].metric.availability /= "unavailable"
            BY <2>8, <2>10, <2>14, <2>18
        <3> QED BY <3>1, <2>15
    <2> QED BY <2>2, <2>16, <2>17, <2>18
<1>2. ASSUME NEW c \in Recorders, stOps[c].kind = "done", stOps[c].result = "rebuilt"
      PROVE  LET known == { stSources[id].metric.availability : id \in stOps[c].listed }
                 shown == stOps[c].aggregate.tokens.availability
             IN /\ shown = "exact" => known = {"exact"}
                /\ shown = "unavailable" => stOps[c].listed = {} \/ "unavailable" \in known
                /\ shown = "estimated" => "unavailable" \notin known
    <2>1. PICK known : known = { stSources[id].metric.availability : id \in stOps[c].listed }
        OBVIOUS
    <2>2. PICK shown : shown = stOps[c].aggregate.tokens.availability
        OBVIOUS
    <2>3. /\ shown = "exact" => known = {"exact"}
          /\ shown = "unavailable" => stOps[c].listed = {} \/ "unavailable" \in known
          /\ shown = "estimated" => "unavailable" \notin known
        BY <1>1, <1>2, <2>1, <2>2, ZenonT(40)
    <2> QED BY <2>1, <2>2, <2>3
<1> QED BY <1>2 DEF PartialIsNotTotal

\* StatInv is an invariant.
LEMMA StatInvHolds == StatisticsSpec => []StatInv
<1>1. StatisticsInit => StatInv
    <2> SUFFICES ASSUME StatisticsInit PROVE StatInv
        OBVIOUS
    <2>1. DOMAIN stSources = {} /\ stRows = {}
        BY DEF StatisticsInit, NoSources
    <2>2. SourcesAreSound
        BY <2>1 DEF SourcesAreSound
    <2>3. DOMAIN stOps = Recorders /\ \A c \in Recorders : stOps[c] = StatIdle
        BY DEF StatisticsInit
    <2>4. StatCallIsSound(StatIdle, stSources)
        BY DEF StatCallIsSound, StatIdle
    <2> QED BY <2>2, <2>3, <2>4 DEF StatInv
<1>2. StatInv /\ [StatisticsNext]_statisticsVars => StatInv'
    <2>1. ASSUME StatInv, UNCHANGED statisticsVars
          PROVE  StatInv'
        BY <2>1 DEF StatInv, SourcesAreSound, statisticsVars
    <2> QED BY <2>1, StatStepIsSound
<1> QED BY <1>1, <1>2, PTL DEF StatisticsSpec

\* What the invariant says without adding anything up.
LEMMA StatInvIsEnough ==
    ASSUME StatInv
    PROVE  StatisticsTypeOK /\ RecordedIsKept /\ PartialIsNotTotal
<1>1. ASSUME NEW c \in Recorders, NEW call, call = stOps[c]
      PROVE  /\ call.kind \in {"idle", "record", "rebuild", "done"}
             /\ (call.kind = "done" /\ call.result \in {"applied", "already_applied"}) =>
                    call.id \in DOMAIN stSources /\ stSources[call.id] = call.source
    <2>1. StatCallIsSound(call, stSources)
        BY <1>1 DEF StatInv
    <2> QED BY <2>1 DEF StatCallIsSound
<1>2. StatisticsTypeOK
    BY <1>1 DEF StatInv, SourcesAreSound, StatisticsTypeOK
<1>3. RecordedIsKept
    BY <1>1 DEF RecordedIsKept
<1> QED BY <1>2, <1>3, StatInvShowsNoPartialSum

-----------------------------------------------------------------------------
(* Statistics: the sums *)

\* Row i of the table f over columns J adds w[i] to a sum.
RowsSumTo(f, w, I, J) ==
    \A i \in I, R \in SUBSET I : i \notin R =>
        SumFunctionOnSet(f, (R \cup {i}) \X J) = w[i] + SumFunctionOnSet(f, R \X J)

\* A table is summed row by row.
LEMMA SumByRows ==
    ASSUME NEW I, IsFiniteSet(I), NEW J, NEW f, NEW w, \A i \in I : w[i] \in Int, RowsSumTo(f, w, I, J)
    PROVE  SumFunctionOnSet(f, I \X J) = SumFunctionOnSet(w, I)
<1> DEFINE B == { R \in SUBSET I : SumFunctionOnSet(f, R \X J) /= SumFunctionOnSet(w, R) }
<1>1. SUFFICES ASSUME B /= {}
               PROVE  FALSE
    OBVIOUS
<1>2. PICK R \in B : \A x \in R : R \ {x} \notin B
    <2>1. B \subseteq SUBSET I
        OBVIOUS
    <2> HIDE DEF B
    <2> QED BY <1>1, <2>1, SmallestExists
<1>3. CASE R = {}
    <2>1. R \X J = {}
        BY <1>3
    <2>2. SumFunctionOnSet(f, R \X J) = 0 /\ SumFunctionOnSet(w, R) = 0
        BY <1>3, <2>1, SumOfNone
    <2> QED BY <2>2
<1>4. CASE R /= {}
    <2>1. PICK i : i \in R
        BY <1>4
    <2>2. PICK rest : rest = R \ {i}
        OBVIOUS
    <2>3. rest \in SUBSET I /\ i \in I /\ i \notin rest /\ rest \cup {i} = R
        BY <2>1, <2>2
    <2>4. SumFunctionOnSet(f, rest \X J) = SumFunctionOnSet(w, rest)
        BY <1>2, <2>1, <2>2, <2>3
    <2>5. SumFunctionOnSet(f, R \X J) = w[i] + SumFunctionOnSet(f, rest \X J)
        BY <2>3 DEF RowsSumTo
    <2>6. SumFunctionOnSet(w, R) = w[i] + SumFunctionOnSet(w, rest)
        <3>1. IsFiniteSet(R) /\ \A x \in R : w[x] \in Int
            BY FS_Subset
        <3> QED BY <2>1, <2>2, <3>1, SumWithout
    <2> QED BY <2>4, <2>5, <2>6
<1> QED BY <1>3, <1>4

\* Tables of one and of two columns.
IsColumn(f, w, I, s) == \A i \in I : f[<<i, s>>] \in Int /\ w[i] = f[<<i, s>>]
AreColumns(f, w, I, s, t) ==
    \A i \in I : /\ f[<<i, s>>] \in Int /\ f[<<i, t>>] \in Int
                 /\ w[i] = f[<<i, s>>] + f[<<i, t>>]

LEMMA OneColumn ==
    ASSUME NEW I, IsFiniteSet(I), NEW s, NEW f, NEW w, IsColumn(f, w, I, s)
    PROVE  SumFunctionOnSet(f, I \X {s}) = SumFunctionOnSet(w, I)
<1> SUFFICES ASSUME \A i \in I : f[<<i, s>>] \in Int /\ w[i] = f[<<i, s>>]
             PROVE  SumFunctionOnSet(f, I \X {s}) = SumFunctionOnSet(w, I)
    BY DEF IsColumn
<1>1. ASSUME NEW i \in I, NEW R \in SUBSET I, i \notin R
      PROVE  SumFunctionOnSet(f, (R \cup {i}) \X {s}) = w[i] + SumFunctionOnSet(f, R \X {s})
    <2>1. PICK T : T = (R \cup {i}) \X {s}
        OBVIOUS
    <2>2. T \ {<<i, s>>} = R \X {s} /\ <<i, s>> \in T
        BY <1>1, <2>1
    <2>3. IsFiniteSet(T)
        <3>1. PICK rows : rows = R \cup {i}
            OBVIOUS
        <3>2. rows \in SUBSET I
            BY <3>1
        <3>3. IsFiniteSet(rows)
            BY <3>2, FS_Subset
        <3>4. IsFiniteSet({s})
            BY FS_Singleton
        <3> QED BY <2>1, <3>1, <3>3, <3>4, FS_Product
    <2>4. \A x \in T : f[x] \in Int
        BY <2>1
    <2>5. SumFunctionOnSet(f, T) = f[<<i, s>>] + SumFunctionOnSet(f, T \ {<<i, s>>})
        BY <2>2, <2>3, <2>4, SumWithout
    <2> QED BY <2>1, <2>2, <2>5
<1>2. RowsSumTo(f, w, I, {s})
    BY <1>1 DEF RowsSumTo
<1>3. PICK J : J = {s}
    OBVIOUS
<1>4. RowsSumTo(f, w, I, J) /\ \A i \in I : w[i] \in Int
    BY <1>2, <1>3
<1>5. SumFunctionOnSet(f, I \X J) = SumFunctionOnSet(w, I)
    BY <1>4, SumByRows
<1> QED BY <1>3, <1>5

LEMMA TwoColumns ==
    ASSUME NEW I, IsFiniteSet(I), NEW s, NEW t, s /= t, NEW f, NEW w, AreColumns(f, w, I, s, t)
    PROVE  SumFunctionOnSet(f, I \X {s, t}) = SumFunctionOnSet(w, I)
<1> SUFFICES ASSUME \A i \in I : /\ f[<<i, s>>] \in Int /\ f[<<i, t>>] \in Int
                                 /\ w[i] = f[<<i, s>>] + f[<<i, t>>]
             PROVE  SumFunctionOnSet(f, I \X {s, t}) = SumFunctionOnSet(w, I)
    BY DEF AreColumns
<1>1. ASSUME NEW i \in I, NEW R \in SUBSET I, i \notin R
      PROVE  SumFunctionOnSet(f, (R \cup {i}) \X {s, t}) = w[i] + SumFunctionOnSet(f, R \X {s, t})
    <2>1. PICK T : T = (R \cup {i}) \X {s, t}
        OBVIOUS
    <2>2. PICK U : U = T \ {<<i, s>>}
        OBVIOUS
    <2>3. <<i, s>> \in T /\ <<i, t>> \in U /\ U \ {<<i, t>>} = R \X {s, t}
        <3>1. <<i, s>> \in T /\ <<i, t>> \in U
            BY <2>1, <2>2
        <3>2. U \ {<<i, t>>} = T \ {<<i, s>>, <<i, t>>}
            BY <2>2
        <3>3. T \ {<<i, s>>, <<i, t>>} = R \X {s, t}
            BY <1>1, <2>1
        <3> QED BY <3>1, <3>2, <3>3
    <2>4. IsFiniteSet(T) /\ IsFiniteSet(U)
        <3>1. PICK rows : rows = R \cup {i}
            OBVIOUS
        <3>2. rows \in SUBSET I
            BY <3>1
        <3>3. IsFiniteSet(rows)
            BY <3>2, FS_Subset
        <3>4. IsFiniteSet({s, t})
            <4>1. IsFiniteSet({s}) /\ {s, t} = {s} \cup {t}
                BY FS_Singleton
            <4>2. IsFiniteSet({s} \cup {t})
                BY <4>1, FS_AddElement
            <4> QED BY <4>1, <4>2
        <3>5. IsFiniteSet(T)
            BY <2>1, <3>1, <3>3, <3>4, FS_Product
        <3>6. U \in SUBSET T
            BY <2>2
        <3> QED BY <3>5, <3>6, FS_Subset
    <2>5. \A x \in T : f[x] \in Int
        <3>1. ASSUME NEW x \in T
              PROVE  f[x] \in Int
            <4>1. PICK j \in I : x = <<j, s>> \/ x = <<j, t>>
                BY <2>1
            <4> QED BY <4>1
        <3> QED BY <3>1
    <2>6. SumFunctionOnSet(f, T) = f[<<i, s>>] + SumFunctionOnSet(f, U)
        BY <2>2, <2>3, <2>4, <2>5, SumWithout
    <2>7. SumFunctionOnSet(f, U) = f[<<i, t>>] + SumFunctionOnSet(f, U \ {<<i, t>>})
        BY <2>2, <2>3, <2>4, <2>5, SumWithout
    <2>8. SumFunctionOnSet(f, R \X {s, t}) \in Int
        <3>1. IsFiniteSet(R \X {s, t}) /\ \A x \in R \X {s, t} : f[x] \in Int
            BY <2>3, <2>4, <2>5, <2>1, FS_Subset
        <3> QED BY <3>1, SumIsInt
    <2>9. PICK n : n = SumFunctionOnSet(f, R \X {s, t})
        OBVIOUS
    <2>10. SumFunctionOnSet(f, T) = f[<<i, s>>] + (f[<<i, t>>] + n) /\ n \in Int
        BY <2>3, <2>6, <2>7, <2>8, <2>9
    <2>11. SumFunctionOnSet(f, T) = w[i] + n
        <3>1. f[<<i, s>>] \in Int /\ f[<<i, t>>] \in Int /\ w[i] = f[<<i, s>>] + f[<<i, t>>]
            OBVIOUS
        <3> QED BY <2>10, <3>1
    <2> QED BY <2>1, <2>9, <2>11
<1>2. RowsSumTo(f, w, I, {s, t})
    BY <1>1 DEF RowsSumTo
<1>3. PICK J : J = {s, t}
    OBVIOUS
<1>4. RowsSumTo(f, w, I, J) /\ \A i \in I : w[i] \in Int
    <2>1. RowsSumTo(f, w, I, J)
        BY <1>2, <1>3
    <2>2. ASSUME NEW i \in I
          PROVE  w[i] \in Int
        <3>1. f[<<i, s>>] \in Int /\ f[<<i, t>>] \in Int /\ w[i] = f[<<i, s>>] + f[<<i, t>>]
            OBVIOUS
        <3> QED BY <3>1
    <2> QED BY <2>1, <2>2
<1>5. SumFunctionOnSet(f, I \X J) = SumFunctionOnSet(w, I)
    BY <1>4, SumByRows
<1> QED BY <1>3, <1>5

\* A sum of c for each member of T counts T c times.
LEMMA SumCounts ==
    ASSUME NEW I, IsFiniteSet(I), NEW T \in SUBSET I, NEW c \in {1, 2}, NEW w,
           \A i \in I : w[i] = IF i \in T THEN c ELSE 0
    PROVE  SumFunctionOnSet(w, I) = c * Cardinality(T)
<1> DEFINE B == { R \in SUBSET I : SumFunctionOnSet(w, R) /= c * Cardinality(T \cap R) }
<1>1. SUFFICES ASSUME B /= {}
               PROVE  FALSE
    <2>1. T \cap I = T
        OBVIOUS
    <2> QED BY <2>1
<1>2. PICK R \in B : \A x \in R : R \ {x} \notin B
    <2>1. B \subseteq SUBSET I
        OBVIOUS
    <2> HIDE DEF B
    <2> QED BY <1>1, <2>1, SmallestExists
<1>3. CASE R = {}
    <2>1. SumFunctionOnSet(w, R) = 0 /\ Cardinality(T \cap R) = 0
        BY <1>3, SumOfNone, FS_EmptySet
    <2> QED BY <2>1
<1>4. CASE R /= {}
    <2>1. PICK i : i \in R
        BY <1>4
    <2>2. PICK rest : rest = R \ {i}
        OBVIOUS
    <2>3. PICK n : n = Cardinality(T \cap rest)
        OBVIOUS
    <2>4. IsFiniteSet(R) /\ IsFiniteSet(T \cap rest) /\ n \in Nat
        BY <2>2, <2>3, FS_Subset, FS_CardinalityType
    <2>5. SumFunctionOnSet(w, rest) = c * n
        BY <1>2, <2>1, <2>2, <2>3
    <2>6. SumFunctionOnSet(w, R) = w[i] + SumFunctionOnSet(w, rest)
        BY <2>1, <2>2, <2>4, SumWithout
    <2>7. Cardinality(T \cap R) = IF i \in T THEN n + 1 ELSE n
        <3>1. CASE i \in T
            <4>1. T \cap R = (T \cap rest) \cup {i} /\ i \notin T \cap rest
                BY <2>1, <2>2, <3>1
            <4> QED BY <2>3, <2>4, <3>1, <4>1, FS_AddElement
        <3>2. CASE i \notin T
            <4>1. T \cap R = T \cap rest
                BY <2>1, <2>2, <3>2
            <4> QED BY <2>3, <3>2, <4>1
        <3> QED BY <3>1, <3>2
    <2>8. SumFunctionOnSet(w, R) = c * Cardinality(T \cap R)
        <3>1. i \in I
            BY <2>1
        <3>2. w[i] = IF i \in T THEN c ELSE 0
            BY <3>1
        <3>3. CASE c = 1
            BY <2>4, <2>5, <2>6, <2>7, <3>2, <3>3
        <3>4. CASE c = 2
            BY <2>4, <2>5, <2>6, <2>7, <3>2, <3>4
        <3> QED BY <3>3, <3>4
    <2> QED BY <2>8
<1> QED BY <1>3, <1>4

\* What field says of every source and seat.
FieldIs(field, v, ids, sources) ==
    \A id \in ids, seat \in StatSeats :
        v[<<id, seat>>] \in Int /\ Observation(id, sources[id], seat)[field] = v[<<id, seat>>]

\* What the selected seats of each source add to a total.
RowOf(v, filter, id) == IF filter = 0 THEN v[<<id, 1>>] + v[<<id, 2>>] ELSE v[<<id, filter>>]

\* A total is the sum over the sources of what their selected seats add.
LEMMA TotalByRows ==
    ASSUME NEW ids, IsFiniteSet(ids), NEW filter \in {0} \cup StatSeats, NEW sources, NEW os,
           OncePerSeat(os, filter, ids, sources), NEW field, NEW v, FieldIs(field, v, ids, sources),
           NEW w, \A id \in ids : w[id] = RowOf(v, filter, id)
    PROVE  Total(field, os) = SumFunctionOnSet(w, ids)
<1>1. PICK f : f = [key \in DOMAIN os |-> os[key][field]]
    OBVIOUS
<1>2. PICK chosen : chosen = SelectedSeats(filter)
    OBVIOUS
<1>3. DOMAIN f = ids \X chosen /\ chosen \subseteq StatSeats
    BY <1>1, <1>2 DEF OncePerSeat, SelectedSeats
<1>4. Total(field, os) = SumFunctionOnSet(f, ids \X chosen)
    BY <1>1, <1>3, Zenon DEF Total, SumFunction
<1>5. \A id \in ids, seat \in chosen : f[<<id, seat>>] \in Int /\ f[<<id, seat>>] = v[<<id, seat>>]
    <2>1. ASSUME NEW id \in ids, NEW seat \in chosen
          PROVE  f[<<id, seat>>] \in Int /\ f[<<id, seat>>] = v[<<id, seat>>]
        <3>1. <<id, seat>> \in DOMAIN os /\ seat \in StatSeats
            BY <1>2, <1>3 DEF OncePerSeat
        <3>2. f[<<id, seat>>] = os[<<id, seat>>][field]
            BY <1>1, <3>1
        <3>3. os[<<id, seat>>] = Observation(id, sources[id], seat)
            BY <1>2 DEF OncePerSeat
        <3> QED BY <3>1, <3>2, <3>3 DEF FieldIs
    <2> QED BY <2>1
<1>6. CASE filter = 0
    <2>1. chosen = {1, 2}
        BY <1>2, <1>6 DEF SelectedSeats, StatSeats
    <2>2. ASSUME NEW id \in ids
          PROVE  /\ f[<<id, 1>>] \in Int /\ f[<<id, 2>>] \in Int
                 /\ w[id] = f[<<id, 1>>] + f[<<id, 2>>]
        BY <1>5, <1>6, <2>1 DEF RowOf
    <2>3. SumFunctionOnSet(f, ids \X {1, 2}) = SumFunctionOnSet(w, ids)
        <3>1. AreColumns(f, w, ids, 1, 2)
            BY <2>2 DEF AreColumns
        <3> QED BY <3>1, TwoColumns
    <2> QED BY <1>4, <2>1, <2>3
<1>7. CASE filter \in StatSeats
    <2>1. chosen = {filter} /\ filter /= 0
        BY <1>2, <1>7 DEF SelectedSeats, StatSeats
    <2>2. ASSUME NEW id \in ids
          PROVE  f[<<id, filter>>] \in Int /\ w[id] = f[<<id, filter>>]
        BY <1>5, <2>1 DEF RowOf
    <2>3. SumFunctionOnSet(f, ids \X {filter}) = SumFunctionOnSet(w, ids)
        <3>1. IsColumn(f, w, ids, filter)
            BY <2>2 DEF IsColumn
        <3> QED BY <3>1, OneColumn
    <2> QED BY <1>4, <2>1, <2>3
<1> QED BY <1>6, <1>7

\* What a valid log says of the winner and the scores.
LEMMA ResultOfLog ==
    ASSUME NEW log \in Logs, ValidLog(log)
    PROVE  /\ Last(log).result.winner \in {0, 1, 2}
           /\ \A seat \in StatSeats : Last(log).result.scores[seat] \in Int
<1>1. log \in Seq(ToSet(log)) /\ log /= <<>>
    BY StatisticsAssumption DEF ValidLog
<1>2. PICK e : e = Last(log)
    OBVIOUS
<1>3. Len(log) \in DOMAIN log /\ e = log[Len(log)]
    BY <1>1, <1>2 DEF Last
<1>4. e \in ToSet(log)
    BY <1>3 DEF ToSet
<1>5. e.seat \in {1, 2} /\ \A seat \in {1, 2} : e.result.scores[seat] \in Int
    BY <1>4, StatisticsAssumption
<1>6. ExpectedWinner(e) \in {0, 1, 2}
    BY <1>5 DEF ExpectedWinner, Other
<1>7. e.result.winner = ExpectedWinner(e)
    BY <1>2 DEF ValidLog
<1> QED BY <1>2, <1>5, <1>6, <1>7 DEF StatSeats

\* What an observation counts.
LEMMA ObservationCounts ==
    ASSUME NEW id, NEW source, NEW seat, NEW o, o = Observation(id, source, seat),
           NEW result, result = Last(source.log).result
    PROVE  /\ o["games"] = 1 /\ o["wins"] = One(result.winner = seat)
           /\ o["losses"] = One(result.winner = Other(seat)) /\ o["ties"] = One(result.winner = 0)
           /\ o["spread"] = result.scores[seat] - result.scores[Other(seat)]
BY DEF Observation

\* The sources of ids carry logs that passed validation.
LogsAreSound(ids, sources) == \A id \in ids : sources[id].log \in Logs /\ ValidLog(sources[id].log)

WinnerOf(sources, id) == Last(sources[id].log).result.winner

\* What the totals of an aggregate come to.
TotalsCount(os, filter, seats, ids, sources) ==
    /\ Total("games", os) = seats * Cardinality(ids)
    /\ Total("wins", os) + Total("losses", os) + Total("ties", os) = Total("games", os)
    /\ Total("ties", os) = seats * Cardinality({ id \in ids : WinnerOf(sources, id) = 0 })
    /\ seats = 2 => Total("spread", os) = 0 /\ Total("wins", os) = Total("losses", os)
    /\ seats = 1 => Total("wins", os) = Cardinality({ id \in ids : WinnerOf(sources, id) = filter })

LEMMA TotalsOfListing ==
    ASSUME NEW ids, IsFiniteSet(ids), NEW filter \in {0} \cup StatSeats, NEW sources,
           LogsAreSound(ids, sources), NEW os, OncePerSeat(os, filter, ids, sources),
           NEW seats, seats = IF filter = 0 THEN 2 ELSE 1
    PROVE  TotalsCount(os, filter, seats, ids, sources)
<1> DEFINE cells == ids \X StatSeats
           winner(id) == WinnerOf(sources, id)
           score(id, s) == Last(sources[id].log).result.scores[s]
           G == [x \in cells |-> 1]
           W == [x \in cells |-> One(winner(x[1]) = x[2])]
           L == [x \in cells |-> One(winner(x[1]) = Other(x[2]))]
           T == [x \in cells |-> One(winner(x[1]) = 0)]
           P == [x \in cells |-> score(x[1], x[2]) - score(x[1], Other(x[2]))]
           row(v) == [id \in ids |-> RowOf(v, filter, id)]
           sum(v) == SumFunctionOnSet(row(v), ids)
<1>1. ASSUME NEW id \in ids, NEW s \in StatSeats
      PROVE  /\ winner(id) \in {0, 1, 2} /\ score(id, s) \in Int
             /\ Other(s) \in StatSeats /\ score(id, Other(s)) \in Int /\ <<id, s>> \in cells
    <2>1. winner(id) \in {0, 1, 2} /\ \A r \in StatSeats : score(id, r) \in Int
        BY ResultOfLog DEF LogsAreSound, WinnerOf
    <2>2. Other(s) \in StatSeats
        BY DEF Other, StatSeats
    <2> QED BY <2>1, <2>2
<1>2. ASSUME NEW id \in ids, NEW s \in StatSeats
      PROVE  /\ G[<<id, s>>] = 1 /\ W[<<id, s>>] = One(winner(id) = s)
             /\ L[<<id, s>>] = One(winner(id) = Other(s)) /\ T[<<id, s>>] = One(winner(id) = 0)
             /\ P[<<id, s>>] = score(id, s) - score(id, Other(s))
    BY <1>1, SMTT(40)
<1>3. ASSUME NEW id \in ids, NEW s \in StatSeats, NEW o, o = Observation(id, sources[id], s)
      PROVE  /\ o["games"] = G[<<id, s>>] /\ o["wins"] = W[<<id, s>>] /\ o["losses"] = L[<<id, s>>]
             /\ o["ties"] = T[<<id, s>>] /\ o["spread"] = P[<<id, s>>]
    <2>1. PICK result : result = Last(sources[id].log).result
        OBVIOUS
    <2>2. /\ o["games"] = 1 /\ o["wins"] = One(result.winner = s)
          /\ o["losses"] = One(result.winner = Other(s)) /\ o["ties"] = One(result.winner = 0)
          /\ o["spread"] = result.scores[s] - result.scores[Other(s)]
        BY <1>3, <2>1, ObservationCounts
    <2> QED BY <1>2, <2>1, <2>2 DEF WinnerOf
<1> HIDE DEF G, W, L, T, P
<1>4. ASSUME NEW id \in ids, NEW s \in StatSeats
      PROVE  /\ G[<<id, s>>] = 1
             /\ W[<<id, s>>] = (IF winner(id) = s THEN 1 ELSE 0)
             /\ L[<<id, s>>] = (IF winner(id) = Other(s) THEN 1 ELSE 0)
             /\ T[<<id, s>>] = (IF winner(id) = 0 THEN 1 ELSE 0)
             /\ P[<<id, s>>] = score(id, s) - score(id, Other(s)) /\ P[<<id, s>>] \in Int
    BY <1>1, <1>2 DEF One
<1>5. ASSUME NEW v, NEW field, FieldIs(field, v, ids, sources)
      PROVE  Total(field, os) = sum(v)
    <2>1. \A id \in ids : row(v)[id] = RowOf(v, filter, id)
        OBVIOUS
    <2> HIDE DEF row
    <2> QED BY <1>5, <2>1, TotalByRows
<1>6. /\ FieldIs("games", G, ids, sources) /\ FieldIs("wins", W, ids, sources)
      /\ FieldIs("losses", L, ids, sources) /\ FieldIs("ties", T, ids, sources)
      /\ FieldIs("spread", P, ids, sources)
    BY <1>3, <1>4 DEF FieldIs
<1>7. /\ Total("games", os) = sum(G) /\ Total("wins", os) = sum(W) /\ Total("losses", os) = sum(L)
      /\ Total("ties", os) = sum(T) /\ Total("spread", os) = sum(P)
    BY <1>5, <1>6
<1>8. 1 \in StatSeats /\ 2 \in StatSeats /\ Other(1) = 2 /\ Other(2) = 1
    BY DEF StatSeats, Other
<1>9. ASSUME NEW id \in ids
      PROVE  /\ row(G)[id] = seats
             /\ row(T)[id] = (IF winner(id) = 0 THEN seats ELSE 0)
             /\ row(W)[id] \in Int /\ row(L)[id] \in Int
             /\ row(W)[id] + row(L)[id] + row(T)[id] = row(G)[id]
             /\ seats = 2 => row(P)[id] = 0 /\ row(W)[id] = row(L)[id]
             /\ seats = 1 => row(W)[id] = (IF winner(id) = filter THEN 1 ELSE 0)
    <2>1. CASE filter = 0
        <3>1. \A v : row(v)[id] = v[<<id, 1>>] + v[<<id, 2>>]
            BY <2>1 DEF RowOf
        <3>2. winner(id) \in {0, 1, 2} /\ score(id, 1) \in Int /\ score(id, 2) \in Int
            BY <1>1, <1>8
        <3> HIDE DEF row, winner, score
        <3>3. /\ P[<<id, 1>>] = score(id, 1) - score(id, 2) /\ P[<<id, 2>>] = score(id, 2) - score(id, 1)
            BY <1>4, <1>8
        <3>4. row(P)[id] = 0
            BY <3>1, <3>2, <3>3
        <3> QED BY <1>4, <1>8, <2>1, <3>1, <3>2, <3>4
    <2>2. CASE filter \in StatSeats
        <3>1. filter /= 0 /\ seats = 1 /\ filter \in {1, 2}
            BY <2>2 DEF StatSeats
        <3>2. \A v : row(v)[id] = v[<<id, filter>>]
            BY <3>1 DEF RowOf
        <3>3. winner(id) \in {0, 1, 2}
            BY <1>1, <1>8
        <3> HIDE DEF row, winner, score
        <3> QED BY <1>4, <1>8, <2>2, <3>1, <3>2, <3>3
    <2> QED BY <2>1, <2>2
<1> HIDE DEF row
<1>10. seats \in {1, 2}
    OBVIOUS
<1>11. sum(G) = seats * Cardinality(ids)
    <2>1. ids \in SUBSET ids /\ \A id \in ids : row(G)[id] = IF id \in ids THEN seats ELSE 0
        BY <1>9
    <2> QED BY <1>10, <2>1, SumCounts
<1>12. sum(T) = seats * Cardinality({ id \in ids : WinnerOf(sources, id) = 0 })
    <2>1. PICK tied : tied = { id \in ids : WinnerOf(sources, id) = 0 }
        OBVIOUS
    <2>2. tied \in SUBSET ids /\ \A id \in ids : row(T)[id] = IF id \in tied THEN seats ELSE 0
        BY <1>9, <2>1
    <2>3. sum(T) = seats * Cardinality(tied)
        BY <1>10, <2>2, SumCounts
    <2> QED BY <2>1, <2>3
<1>13. sum(W) + sum(L) + sum(T) = sum(G)
    <2> DEFINE WL == [id \in ids |-> row(W)[id] + row(L)[id]]
    <2>1. /\ \A id \in ids : WL[id] = row(W)[id] + row(L)[id] /\ WL[id] \in Int
          /\ \A id \in ids : row(T)[id] \in Int /\ row(G)[id] = WL[id] + row(T)[id]
        BY <1>9, <1>10
    <2> HIDE DEF WL
    <2>2. AreAdded(WL, row(W), row(L), ids)
        BY <1>9, <2>1 DEF AreAdded
    <2>3. AreAdded(row(G), WL, row(T), ids)
        BY <2>1 DEF AreAdded
    <2>4. SumFunctionOnSet(WL, ids) = sum(W) + sum(L)
        BY <2>2, SumPlus
    <2>5. sum(G) = SumFunctionOnSet(WL, ids) + sum(T)
        BY <2>3, SumPlus
    <2> QED BY <2>4, <2>5
<1>14. seats = 2 => sum(P) = 0 /\ sum(W) = sum(L)
    <2>1. ASSUME seats = 2
          PROVE  sum(P) = 0
        <3>1. \A id \in ids : row(P)[id] = 0
            BY <1>9, <2>1
        <3> QED BY <3>1, SumOfZeros
    <2>2. ASSUME seats = 2
          PROVE  sum(W) = sum(L)
        <3>1. \A id \in ids : row(W)[id] \in Int /\ row(W)[id] = row(L)[id]
            BY <1>9, <2>2
        <3> QED BY <3>1, SumSame
    <2> QED BY <2>1, <2>2
<1>15. seats = 1 => sum(W) = Cardinality({ id \in ids : WinnerOf(sources, id) = filter })
    <2> SUFFICES ASSUME seats = 1
                 PROVE  sum(W) = Cardinality({ id \in ids : WinnerOf(sources, id) = filter })
        OBVIOUS
    <2>1. PICK won : won = { id \in ids : WinnerOf(sources, id) = filter }
        OBVIOUS
    <2>2. won \in SUBSET ids /\ \A id \in ids : row(W)[id] = IF id \in won THEN 1 ELSE 0
        BY <1>9, <2>1
    <2>3. sum(W) = 1 * Cardinality(won)
        BY <2>2, SumCounts
    <2>4. Cardinality(won) \in Nat
        BY <2>2, FS_Subset, FS_CardinalityType
    <2> QED BY <2>1, <2>3, <2>4
<1> QED BY <1>7, <1>11, <1>12, <1>13, <1>14, <1>15 DEF TotalsCount

\* The invariant makes an answer count its listing.
LEMMA StatInvCountsTheListing ==
    ASSUME StatInv
    PROVE  RebuildCountsTheListing
<1>1. \A c \in Recorders : StatCallIsSound(stOps[c], stSources)
    BY DEF StatInv
<1>2. ASSUME NEW c \in Recorders, stOps[c].kind = "done", stOps[c].result = "rebuilt"
      PROVE  LET a == stOps[c].aggregate
                 sources == stOps[c].listed
                 seats == IF stOps[c].filter = 0 THEN 2 ELSE 1
             IN /\ a.games = seats * Cardinality(sources)
                /\ a.wins + a.losses + a.ties = a.games
                /\ a.ties = seats * Cardinality(sources \ Winners(sources))
                /\ seats = 2 => a.spread = 0 /\ a.wins = a.losses
                /\ seats = 1 => a.wins = Cardinality({ id \in sources :
                                    Last(stSources[id].log).result.winner = stOps[c].filter })
    <2>1. PICK call : call = stOps[c]
        OBVIOUS
    <2>2. PICK ids : ids = call.listed
        OBVIOUS
    <2>3. PICK n : n = IF call.filter = 0 THEN 2 ELSE 1
        OBVIOUS
    <2>4. PICK answer : answer = call.aggregate
        OBVIOUS
    <2>5. StatCallIsSound(call, stSources) /\ call.kind = "done" /\ call.result = "rebuilt"
        BY <1>1, <1>2, <2>1
    <2>6. /\ answer.games = n * Cardinality(ids)
          /\ answer.wins + answer.losses + answer.ties = answer.games
          /\ answer.ties = n * Cardinality(ids \ Winners(ids))
          /\ n = 2 => answer.spread = 0 /\ answer.wins = answer.losses
          /\ n = 1 => answer.wins = Cardinality({ id \in ids :
                                Last(stSources[id].log).result.winner = call.filter })
        <3>1. PICK os : /\ call.filter \in {0} \cup StatSeats /\ ids \subseteq DOMAIN stSources
                        /\ OncePerSeat(os, call.filter, ids, stSources) /\ answer = aggregate_values(os)
            BY <2>2, <2>4, <2>5 DEF StatCallIsSound
        <3>2. PICK filter : filter = call.filter
            OBVIOUS
        <3>3. /\ answer.games = Total("games", os) /\ answer.wins = Total("wins", os) /\ answer.losses = Total("losses", os)
              /\ answer.ties = Total("ties", os) /\ answer.spread = Total("spread", os)
            BY <3>1 DEF aggregate_values
        <3>4. LogsAreSound(ids, stSources)
            BY <3>1 DEF StatInv, SourcesAreSound, LogsAreSound
        <3>5. IsFiniteSet(ids)
            <4>1. ids \subseteq SourceIds /\ IsFiniteSet(SourceIds)
                BY <3>1, StatisticsAssumption DEF StatInv, SourcesAreSound
            <4> QED BY <4>1, FS_Subset
        <3>6. n = IF filter = 0 THEN 2 ELSE 1
            BY <2>3, <3>2
        <3>7. filter \in {0} \cup StatSeats /\ OncePerSeat(os, filter, ids, stSources)
            BY <3>1, <3>2
        <3>8. TotalsCount(os, filter, n, ids, stSources)
            BY <3>4, <3>5, <3>6, <3>7, TotalsOfListing
        <3>9. /\ Total("games", os) = n * Cardinality(ids)
              /\ Total("wins", os) + Total("losses", os) + Total("ties", os) = Total("games", os)
              /\ Total("ties", os) = n * Cardinality({ id \in ids : WinnerOf(stSources, id) = 0 })
              /\ n = 2 => Total("spread", os) = 0 /\ Total("wins", os) = Total("losses", os)
              /\ n = 1 => Total("wins", os) = Cardinality({ id \in ids : WinnerOf(stSources, id) = filter })
            BY <3>8, Zenon DEF TotalsCount
        <3>10. ids \ Winners(ids) = { id \in ids : WinnerOf(stSources, id) = 0 }
            BY DEF Winners, WinnerOf
        <3>11. { id \in ids : WinnerOf(stSources, id) = filter }
                = { id \in ids : Last(stSources[id].log).result.winner = call.filter }
            BY <3>2 DEF WinnerOf
        <3> QED BY <3>3, <3>9, <3>10, <3>11
    <2> QED BY <2>1, <2>2, <2>3, <2>4, <2>6, Zenon
<1> QED BY <1>2, Zenon DEF RebuildCountsTheListing

\* Statistics: recorded sources stay as they were acknowledged, a rebuild
\* that answers counts every source listed at its start once per selected
\* seat whatever was recorded meanwhile, wins and losses of the two seats
\* cancel out, and a partial sum is not shown as a total.
THEOREM StatisticsAreSafe == StatisticsSpec => []StatisticsSafety
<1>1. StatInv => StatisticsSafety
    BY StatInvIsEnough, StatInvCountsTheListing DEF StatisticsSafety
<1> QED BY <1>1, StatInvHolds, PTL

-----------------------------------------------------------------------------
(* Schedules: lists of lists that are equally long *)

\* The place of the g-th element of the t-th list.
Place(t, g, w) == ((t - 1) * w) + g

\* Products of natural numbers.
LEMMA TimesFacts ==
    ASSUME NEW a \in Nat, NEW w \in Nat
    PROVE  /\ a * w \in Nat /\ (a + 1) * w = (a * w) + w
           /\ 0 * w = 0 /\ 1 * w = w
OBVIOUS

\* Multiplication by a natural number keeps the order.
LEMMA TimesGrows ==
    ASSUME NEW a \in Nat, NEW b \in Nat, NEW w \in Nat, a <= b
    PROVE  a * w <= b * w
OBVIOUS

\* Every place is that of one element of one list.
LEMMA PlaceFacts ==
    ASSUME NEW w \in Nat \ {0}, NEW T \in Nat
    PROVE  /\ T * w \in Nat
           /\ \A t \in 1..T, g \in 1..w : Place(t, g, w) \in 1..T * w
           /\ \A i \in 1..T * w : \E t \in 1..T, g \in 1..w : i = Place(t, g, w)
           /\ \A t \in 1..T, u \in 1..T, g \in 1..w, h \in 1..w :
                Place(t, g, w) = Place(u, h, w) => t = u /\ g = h
<1>1. T * w \in Nat
    BY TimesFacts
<1>2. ASSUME NEW t \in 1..T
      PROVE  (t - 1) * w \in Nat /\ ((t - 1) * w) + w <= T * w
    <2>1. t - 1 \in Nat /\ t \in Nat /\ t <= T /\ (t - 1) + 1 = t
        OBVIOUS
    <2>2. (t - 1) * w \in Nat /\ ((t - 1) + 1) * w = ((t - 1) * w) + w
        BY <2>1, TimesFacts
    <2>3. t * w <= T * w
        BY <2>1, TimesGrows
    <2> QED BY <2>1, <2>2, <2>3
<1>3. ASSUME NEW t \in 1..T, NEW g \in 1..w
      PROVE  Place(t, g, w) \in 1..T * w
    <2>1. PICK p, q : p = (t - 1) * w /\ q = T * w
        OBVIOUS
    <2>2. p \in Nat /\ q \in Nat /\ p + w <= q
        BY <1>1, <1>2, <2>1
    <2>3. p + g \in 1..q
        BY <2>2
    <2> QED BY <2>1, <2>3 DEF Place
<1>4. ASSUME NEW i \in 1..T * w
      PROVE  \E t \in 1..T, g \in 1..w : i = Place(t, g, w)
    <2> DEFINE Past == { k \in Nat : i <= k * w }
    <2>1. T \in Past
        BY <1>1
    <2>2. PICK t \in Past : \A k \in Past : t <= k
        <3>1. Past \subseteq Nat /\ Past # {}
            BY <2>1
        <3> HIDE DEF Past
        <3> QED BY <3>1, LeastExists
    <2>3. t \in Nat /\ i <= t * w /\ t <= T /\ i \in Nat /\ i >= 1
        BY <1>1, <2>1, <2>2
    <2>4. t # 0
        BY <2>3, TimesFacts
    <2>5. t \in 1..T /\ t - 1 \in Nat /\ (t - 1) + 1 = t
        BY <2>3, <2>4
    <2>6. (t - 1) * w \in Nat /\ ((t - 1) + 1) * w = ((t - 1) * w) + w
        BY <2>5, TimesFacts
    <2>7. ~(i <= (t - 1) * w)
        BY <2>2, <2>5
    <2>8. PICK p : p = (t - 1) * w
        OBVIOUS
    <2>9. p \in Nat /\ i <= p + w /\ ~(i <= p)
        BY <2>3, <2>5, <2>6, <2>7, <2>8
    <2>10. i - p \in 1..w /\ i = p + (i - p)
        BY <2>3, <2>9
    <2>11. i = Place(t, i - p, w)
        BY <2>8, <2>10 DEF Place
    <2> QED BY <2>5, <2>10, <2>11
<1>5. ASSUME NEW t \in 1..T, NEW u \in 1..T, NEW g \in 1..w, NEW h \in 1..w,
             Place(t, g, w) = Place(u, h, w), t < u
      PROVE  FALSE
    <2>1. PICK p, q : p = (t - 1) * w /\ q = (u - 1) * w
        OBVIOUS
    <2>2. p \in Nat /\ q \in Nat
        BY <1>2, <2>1
    <2>3. p + w <= q
        <3>1. t \in Nat /\ u - 1 \in Nat /\ t <= u - 1 /\ t - 1 \in Nat /\ (t - 1) + 1 = t
            BY <1>5
        <3>2. t * w <= (u - 1) * w
            BY <3>1, TimesGrows
        <3>3. ((t - 1) + 1) * w = ((t - 1) * w) + w
            BY <3>1, TimesFacts
        <3> QED BY <2>1, <3>1, <3>2, <3>3
    <2>4. p + g = q + h
        BY <1>5, <2>1 DEF Place
    <2> QED BY <2>2, <2>3, <2>4
<1>6. ASSUME NEW t \in 1..T, NEW u \in 1..T, NEW g \in 1..w, NEW h \in 1..w,
             Place(t, g, w) = Place(u, h, w)
      PROVE  t = u /\ g = h
    <2>1. t = u
        BY <1>5, <1>6
    <2>2. PICK p : p = (t - 1) * w
        OBVIOUS
    <2>3. p \in Nat /\ p + g = p + h
        BY <1>2, <1>6, <2>1, <2>2 DEF Place
    <2> QED BY <2>1, <2>3
<1> QED BY <1>1, <1>3, <1>4, <1>6

\* f[i] is the first i lists put together.
FlatUpto(f, ss, m) == f = [i \in 1..m |-> IF i = 1 THEN ss[i] ELSE f[i - 1] \o ss[i]]

\* Every list of lists can be flattened step by step.
LEMMA FlatExists ==
    ASSUME NEW ss, NEW m \in Nat
    PROVE  \E f : FlatUpto(f, ss, m)
<1> SUFFICES ASSUME ~ \E f : FlatUpto(f, ss, m)
             PROVE  FALSE
    OBVIOUS
<1> DEFINE Bad == { n \in Nat : ~ \E f : FlatUpto(f, ss, n) }
<1>1. PICK n \in Bad : \A k \in Bad : n <= k
    BY LeastExists
<1>2. n # 0
    <2>1. FlatUpto([i \in 1..0 |-> 0], ss, 0)
        BY DEF FlatUpto
    <2> QED BY <2>1
<1>3. PICK f : FlatUpto(f, ss, n - 1)
    <2>1. n \in Nat /\ n - 1 \in Nat /\ ~(n <= n - 1)
        BY <1>2
    <2> QED BY <1>1, <2>1
<1>4. PICK g : g = [i \in 1..n |-> IF i = n THEN IF n = 1 THEN ss[n] ELSE f[n - 1] \o ss[n] ELSE f[i]]
    OBVIOUS
<1>5. ASSUME NEW i \in 1..n
      PROVE  g[i] = IF i = 1 THEN ss[i] ELSE g[i - 1] \o ss[i]
    <2>1. \A j \in 1..n - 1 : g[j] = f[j]
        BY <1>2, <1>4
    <2>2. CASE i = n
        <3>1. n # 1 => n - 1 \in 1..n - 1
            BY <1>2
        <3> QED BY <1>2, <1>4, <2>1, <2>2, <3>1
    <2>3. CASE i # n
        <3>1. i \in 1..n - 1
            BY <2>3
        <3>2. i # 1 => i - 1 \in 1..n - 1
            BY <2>3
        <3>3. f[i] = IF i = 1 THEN ss[i] ELSE f[i - 1] \o ss[i]
            BY <1>3, <3>1, Zenon DEF FlatUpto
        <3> QED BY <2>1, <3>1, <3>2, <3>3
    <2> QED BY <2>2, <2>3
<1>6. FlatUpto(g, ss, n)
    BY <1>4, <1>5, Zenon DEF FlatUpto
<1> QED BY <1>6

\* One list after another, by index.
LEMMA JoinedByIndex ==
    ASSUME NEW S, NEW a \in Seq(S), NEW c \in Seq(S)
    PROVE  /\ a \o c \in Seq(S) /\ Len(a \o c) = Len(a) + Len(c) /\ Len(a) \in Nat /\ Len(c) \in Nat
           /\ \A j \in 1..Len(a) : (a \o c)[j] = a[j]
           /\ \A j \in 1..Len(c) : (a \o c)[Len(a) + j] = c[j]
<1>0. PICK p, w : p = Len(a) /\ w = Len(c)
    OBVIOUS
<1>1. ASSUME NEW j \in 1..w
      PROVE  (a \o c)[p + j] = c[j]
    <2>1. p + j \in 1..p + w /\ ~(p + j <= p) /\ (p + j) - p = j
        BY <1>0
    <2> QED BY <1>0, <2>1
<1> QED BY <1>0, <1>1

\* a is the first i lists of ss, w long each, put together.
FlatTo(a, ss, i, w, S) ==
    /\ a \in Seq(S) /\ Len(a) = i * w
    /\ \A t \in 1..i, g \in 1..w : a[Place(t, g, w)] = ss[t][g]

\* Nothing flattens to nothing.
LEMMA FlatNone ==
    ASSUME NEW S, NEW ss, NEW w \in Nat
    PROVE  FlatTo(<<>>, ss, 0, w, S)
<1>1. <<>> \in Seq(S) /\ Len(<<>>) = 0 /\ 0 * w = 0 /\ 1..0 = {}
    BY TimesFacts
<1> QED BY <1>1, Zenon DEF FlatTo

\* One list flattens to itself.
LEMMA FlatOne ==
    ASSUME NEW S, NEW ss, NEW w \in Nat, ss[1] \in Seq(S), Len(ss[1]) = w
    PROVE  FlatTo(ss[1], ss, 1, w, S)
<1>1. ASSUME NEW t \in 1..1, NEW g \in 1..w
      PROVE  Place(t, g, w) = g /\ t = 1
    <2>1. t = 1 /\ t - 1 = 0 /\ 0 * w = 0
        BY TimesFacts
    <2> QED BY <2>1 DEF Place
<1>2. 1 * w = w
    BY TimesFacts
<1> QED BY <1>1, <1>2, Zenon DEF FlatTo

\* One list more, and the flattened one has its elements at the end.
LEMMA FlatOneMore ==
    ASSUME NEW S, NEW ss, NEW w \in Nat \ {0}, NEW i \in Nat, NEW a, FlatTo(a, ss, i, w, S),
           ss[i + 1] \in Seq(S), Len(ss[i + 1]) = w
    PROVE  FlatTo(a \o ss[i + 1], ss, i + 1, w, S)
<1>1. PICK c, p : c = ss[i + 1] /\ p = i * w
    OBVIOUS
<1>2. p \in Nat /\ (i + 1) * w = p + w /\ w \in Nat
    BY <1>1, TimesFacts
<1>3. a \in Seq(S) /\ Len(a) = p /\ c \in Seq(S) /\ Len(c) = w
    BY <1>1, Zenon DEF FlatTo
<1>4. /\ a \o c \in Seq(S) /\ Len(a \o c) = p + w
      /\ \A j \in 1..p : (a \o c)[j] = a[j]
      /\ \A j \in 1..w : (a \o c)[p + j] = c[j]
    <2>0. a \in Seq(S) /\ c \in Seq(S)
        BY <1>3
    <2>1. a \o c \in Seq(S) /\ Len(a \o c) = Len(a) + Len(c)
        BY <2>0, JoinedByIndex
    <2>2. \A j \in 1..Len(a) : (a \o c)[j] = a[j]
        BY <2>0, JoinedByIndex
    <2>3. \A j \in 1..Len(c) : (a \o c)[Len(a) + j] = c[j]
        BY <2>0, JoinedByIndex
    <2> QED BY <1>3, <2>1, <2>2, <2>3, Zenon
<1>5. ASSUME NEW t \in 1..i + 1, NEW g \in 1..w
      PROVE  (a \o c)[Place(t, g, w)] = ss[t][g]
    <2>1. CASE t = i + 1
        <3>1. t - 1 = i
            BY <2>1
        <3>2. Place(t, g, w) = p + g
            BY <1>1, <3>1 DEF Place
        <3> QED BY <1>1, <1>4, <2>1, <3>2
    <2>2. CASE t # i + 1
        <3>1. t \in 1..i
            BY <2>2
        <3>2. Place(t, g, w) \in 1..p
            BY <1>1, <3>1, PlaceFacts
        <3>3. a[Place(t, g, w)] = ss[t][g]
            BY <3>1, Zenon DEF FlatTo
        <3> QED BY <1>4, <3>2, <3>3
    <2> QED BY <2>1, <2>2
<1> QED BY <1>1, <1>2, <1>4, <1>5, Zenon DEF FlatTo

\* FlattenSeq puts the g-th element of the t-th list in its place.
LEMMA FlattenFacts ==
    ASSUME NEW S, NEW T \in Nat, NEW ss, NEW w \in Nat \ {0}, ss \in [1..T -> Seq(S)],
           \A t \in 1..T : Len(ss[t]) = w
    PROVE  FlatTo(FlattenSeq(ss), ss, T, w, S)
<1>0. Len(ss) = T
    OBVIOUS
<1>1. FlattenSeq(ss) = IF T = 0 THEN ss ELSE (CHOOSE h : FlatUpto(h, ss, T))[T]
    <2>1. FlattenSeq(ss) = IF Len(ss) = 0 THEN ss ELSE (CHOOSE h : FlatUpto(h, ss, Len(ss)))[Len(ss)]
        BY Zenon DEF FlattenSeq, FlatUpto
    <2> QED BY <1>0, <2>1
<1>2. CASE T = 0
    <2>1. ss = <<>>
        BY <1>2
    <2> QED BY <1>1, <1>2, <2>1, FlatNone
<1>3. CASE T # 0
    <2>1. PICK f : f = CHOOSE h : FlatUpto(h, ss, T)
        OBVIOUS
    <2>2. FlatUpto(f, ss, T)
        BY <2>1, FlatExists, Zenon
    <2>3. FlattenSeq(ss) = f[T]
        BY <1>1, <1>3, <2>1
    <2>4. \A i \in 1..T : f[i] = IF i = 1 THEN ss[i] ELSE f[i - 1] \o ss[i]
        BY <2>2, Zenon DEF FlatUpto
    <2> DEFINE Bad == { i \in 1..T : ~FlatTo(f[i], ss, i, w, S) }
    <2>5. Bad = {}
        <3> SUFFICES ASSUME Bad # {}
                     PROVE  FALSE
            OBVIOUS
        <3>1. PICK i \in Bad : \A k \in Bad : i <= k
            <4>1. Bad \subseteq Nat
                OBVIOUS
            <4> HIDE DEF Bad
            <4> QED BY <4>1, LeastExists
        <3>2. i \in 1..T /\ ~FlatTo(f[i], ss, i, w, S)
            BY <3>1
        <3>3. CASE i = 1
            <4>1. f[1] = ss[1] /\ ss[1] \in Seq(S) /\ Len(ss[1]) = w /\ w \in Nat
                BY <2>4, <3>2, <3>3
            <4> QED BY <3>2, <3>3, <4>1, FlatOne
        <3>4. CASE i # 1
            <4>1. i - 1 \in 1..T /\ ~(i <= i - 1) /\ i - 1 \in Nat /\ (i - 1) + 1 = i
                BY <3>2, <3>4
            <4>2. FlatTo(f[i - 1], ss, i - 1, w, S)
                BY <3>1, <4>1
            <4>3. f[i] = f[i - 1] \o ss[i] /\ ss[i] \in Seq(S) /\ Len(ss[i]) = w
                BY <2>4, <3>2, <3>4
            <4>4. FlatTo(f[i - 1] \o ss[i], ss, i, w, S)
                BY <4>1, <4>2, <4>3, FlatOneMore
            <4> QED BY <3>2, <4>3, <4>4
        <3> QED BY <3>3, <3>4
    <2>6. T \in 1..T
        BY <1>3
    <2> QED BY <2>3, <2>5, <2>6
<1> QED BY <1>2, <1>3

-----------------------------------------------------------------------------
(* Schedules: who sits where in the rounds of a static format *)

\* The field with the empty slot, and its half.
LEMMA HalfFacts ==
    ASSUME NEW n \in Nat, n >= 2
    PROVE  \E h \in Nat :
               /\ h >= 1 /\ n + (n % 2) = 2 * h /\ (2 * h) \div 2 = h
               /\ \/ n % 2 = 0 /\ n = 2 * h /\ n \div 2 = h
                  \/ n % 2 = 1 /\ n = (2 * h) - 1 /\ n \div 2 = h - 1 /\ h >= 2
<1>1. n % 2 = 0 \/ n % 2 = 1
    OBVIOUS
<1>2. CASE n % 2 = 0
    <2>1. PICK h \in Nat : n = 2 * h
        BY <1>2
    <2> QED BY <1>2, <2>1
<1>3. CASE n % 2 = 1
    <2>1. (n + 1) \div 2 \in Nat /\ n = (2 * ((n + 1) \div 2)) - 1
        BY <1>3
    <2>2. PICK h \in Nat : n = (2 * h) - 1
        BY <2>1
    <2> QED BY <1>3, <2>2
<1> QED BY <1>1, <1>2, <1>3

\* The slot of round 1 that slot i of round r was, and where slot x is then.
CameFrom(m, r, i) == IF i = 1 THEN 1 ELSE IF i > r THEN (i - r) + 1 ELSE (i - r) + m
Moved(m, r, x) == IF x = 1 THEN 1 ELSE IF (x + r) - 1 <= m THEN (x + r) - 1 ELSE (x + r) - m

\* Where a slot moves to and where it came from undo each other.
LEMMA CameFromMoved ==
    ASSUME NEW m \in Nat, NEW r \in 1..m - 1
    PROVE  /\ \A x \in 1..m : Moved(m, r, x) \in 1..m /\ CameFrom(m, r, Moved(m, r, x)) = x
           /\ \A i \in 1..m : CameFrom(m, r, i) \in 1..m /\ Moved(m, r, CameFrom(m, r, i)) = i
BY DEF CameFrom, Moved

\* The slots x and y face each other in round r.
FaceIn(m, r, x, y) == Moved(m, r, x) + Moved(m, r, y) = m + 1

\* Two slots face each other in exactly one round.
LEMMA OneRoundEach ==
    ASSUME NEW h \in Nat, NEW m, m = 2 * h, NEW x \in 1..m, NEW y \in 1..m, x /= y
    PROVE  /\ \E r \in 1..m - 1 : FaceIn(m, r, x, y)
           /\ \A r \in 1..m - 1, q \in 1..m - 1 : (FaceIn(m, r, x, y) /\ FaceIn(m, q, x, y)) => r = q
<1>1. CASE x = 1
    <2>1. m + 1 - y \in 1..m - 1
        BY <1>1
    <2>2. FaceIn(m, m + 1 - y, x, y)
        BY <1>1 DEF Moved, FaceIn
    <2>3. ASSUME NEW r \in 1..m - 1, FaceIn(m, r, x, y)
          PROVE  r = m + 1 - y
        BY <1>1, <2>3 DEF Moved, FaceIn
    <2> QED BY <2>1, <2>2, <2>3
<1>2. CASE y = 1
    <2>1. m + 1 - x \in 1..m - 1
        BY <1>2
    <2>2. FaceIn(m, m + 1 - x, x, y)
        BY <1>2 DEF Moved, FaceIn
    <2>3. ASSUME NEW r \in 1..m - 1, FaceIn(m, r, x, y)
          PROVE  r = m + 1 - x
        BY <1>2, <2>3 DEF Moved, FaceIn
    <2> QED BY <2>1, <2>2, <2>3
<1>3. CASE x /= 1 /\ y /= 1
    <2>1. PICK k \in Nat : x + y = 2 * k \/ x + y = (2 * k) + 1
        <3>1. PICK w \in Nat : w = x + y
            OBVIOUS
        <3>2. w \div 2 \in Nat /\ (w = 2 * (w \div 2) \/ w = (2 * (w \div 2)) + 1)
            OBVIOUS
        <3> QED BY <3>1, <3>2
    <2>2. CASE x + y = 2 * k
        <3>1. m + 1 - k \in 1..m - 1
            BY <1>3, <2>2
        <3>2. FaceIn(m, m + 1 - k, x, y)
            BY <1>3, <2>2, <3>1 DEF Moved, FaceIn
        <3>3. ASSUME NEW r \in 1..m - 1, FaceIn(m, r, x, y)
              PROVE  r = m + 1 - k
            BY <1>3, <2>2, <3>3 DEF Moved, FaceIn
        <3> QED BY <3>1, <3>2, <3>3
    <2>3. CASE x + y = (2 * k) + 1 /\ k <= h
        <3>1. h + 1 - k \in 1..m - 1
            BY <1>3, <2>3
        <3>2. FaceIn(m, h + 1 - k, x, y)
            BY <1>3, <2>3, <3>1 DEF Moved, FaceIn
        <3>3. ASSUME NEW r \in 1..m - 1, FaceIn(m, r, x, y)
              PROVE  r = h + 1 - k
            BY <1>3, <2>3, <3>3 DEF Moved, FaceIn
        <3> QED BY <3>1, <3>2, <3>3
    <2>4. CASE x + y = (2 * k) + 1 /\ k > h
        <3>1. (3 * h) - k \in 1..m - 1
            BY <1>3, <2>4
        <3>2. FaceIn(m, (3 * h) - k, x, y)
            BY <1>3, <2>4, <3>1 DEF Moved, FaceIn
        <3>3. ASSUME NEW r \in 1..m - 1, FaceIn(m, r, x, y)
              PROVE  r = (3 * h) - k
            BY <1>3, <2>4, <3>3 DEF Moved, FaceIn
        <3> QED BY <3>1, <3>2, <3>3
    <2> QED BY <2>1, <2>2, <2>3, <2>4
<1> QED BY <1>1, <1>2, <1>3

\* What the slots start with.
Starting(n, x) == IF x <= n THEN x ELSE 0

SlotsUpto(f, n, m) ==
    f = [r \in 1..m - 1 |-> IF r = 1 THEN [i \in 1..m |-> IF i <= n THEN i ELSE 0] ELSE Rotate(f[r - 1])]

\* The slots of a round, in closed form.
LEMMA SlotsFacts ==
    ASSUME NEW n \in Nat, n >= 2, NEW m \in Nat, m = n + (n % 2)
    PROVE  /\ DOMAIN SlotsOf(n) = 1..m - 1
           /\ \A r \in 1..m - 1 : SlotsOf(n)[r] = [i \in 1..m |-> Starting(n, CameFrom(m, r, i))]
<1>0. m >= 2
    OBVIOUS
<1>1. SlotsOf(n) = CHOOSE f : SlotsUpto(f, n, m)
    BY Zenon DEF SlotsOf, SlotsUpto
<1> DEFINE Row(r) == [i \in 1..m |-> Starting(n, CameFrom(m, r, i))]
<1>2. Row(1) = [i \in 1..m |-> IF i <= n THEN i ELSE 0]
    <2>1. \A i \in 1..m : CameFrom(m, 1, i) = i
        BY DEF CameFrom
    <2> QED BY <2>1 DEF Starting
<1>3. ASSUME NEW r \in 1..m - 1, r /= 1
      PROVE  Row(r) = Rotate(Row(r - 1))
    <2>1. DOMAIN Row(r - 1) = 1..m /\ Len(Row(r - 1)) = m
        OBVIOUS
    <2>2. PICK old : old = Row(r - 1)
        OBVIOUS
    <2>3. ASSUME NEW i \in 1..m
          PROVE  Row(r)[i] = IF i = 1 THEN old[1] ELSE IF i = 2 THEN old[m] ELSE old[i - 1]
        <3>1. CASE i = 1
            <4>1. CameFrom(m, r, i) = CameFrom(m, r - 1, 1)
                BY <3>1 DEF CameFrom
            <4> QED BY <1>0, <2>2, <3>1, <4>1
        <3>2. CASE i = 2
            <4>1. CameFrom(m, r, i) = CameFrom(m, r - 1, m)
                BY <1>3, <3>2 DEF CameFrom
            <4> QED BY <1>0, <2>2, <3>2, <4>1
        <3>3. CASE i /= 1 /\ i /= 2
            <4>1. CameFrom(m, r, i) = CameFrom(m, r - 1, i - 1) /\ i - 1 \in 1..m
                BY <1>3, <3>3 DEF CameFrom
            <4> QED BY <1>0, <2>2, <3>3, <4>1
        <3> QED BY <3>1, <3>2, <3>3
    <2>4. Rotate(old) = [i \in 1..m |-> IF i = 1 THEN old[1] ELSE IF i = 2 THEN old[m] ELSE old[i - 1]]
        BY <2>1, <2>2 DEF Rotate
    <2>5. Rotate(old) = [i \in 1..m |-> Row(r)[i]]
        BY <2>3, <2>4
    <2> QED BY <2>2, <2>5
<1> HIDE DEF Row
<1>4. SlotsUpto([r \in 1..m - 1 |-> Row(r)], n, m)
    <2>1. PICK g : g = [r \in 1..m - 1 |-> Row(r)]
        OBVIOUS
    <2>2. \A r \in 1..m - 1 : Row(r) = IF r = 1 THEN [i \in 1..m |-> IF i <= n THEN i ELSE 0] ELSE Rotate(g[r - 1])
        BY <1>2, <1>3, <2>1
    <2> QED BY <2>1, <2>2, Zenon DEF SlotsUpto
<1>5. PICK f : f = SlotsOf(n) /\ SlotsUpto(f, n, m)
    BY <1>1, <1>4, Zenon
<1>6. DOMAIN f = 1..m - 1
    BY <1>5, Zenon DEF SlotsUpto
<1>7. \A r \in 1..m - 1 : f[r] = IF r = 1 THEN [i \in 1..m |-> IF i <= n THEN i ELSE 0] ELSE Rotate(f[r - 1])
    BY <1>5, Zenon DEF SlotsUpto
<1> DEFINE Bad == { r \in 1..m - 1 : f[r] /= Row(r) }
<1>8. Bad = {}
    <2> SUFFICES ASSUME Bad # {}
                 PROVE  FALSE
        OBVIOUS
    <2>1. PICK r \in Bad : \A k \in Bad : r <= k
        <3>1. Bad \subseteq Nat
            OBVIOUS
        <3> HIDE DEF Bad
        <3> QED BY <3>1, LeastExists
    <2>2. r \in 1..m - 1 /\ f[r] /= Row(r)
        BY <2>1
    <2>3. r /= 1
        BY <1>2, <1>7, <2>2
    <2>4. r - 1 \in 1..m - 1 /\ ~(r <= r - 1)
        BY <2>2, <2>3
    <2>5. f[r - 1] = Row(r - 1)
        BY <2>1, <2>4
    <2> QED BY <1>3, <1>7, <2>2, <2>3, <2>5, ZenonT(60)
<1> QED BY <1>5, <1>6, <1>8 DEF Row

\* Who is in a pair.
LEMMA PairElements ==
    ASSUME NEW a, NEW b
    PROVE  ToSet(<<a, b>>) = {a, b}
<1>1. PICK p : p = <<a, b>>
    OBVIOUS
<1>2. DOMAIN p = {1, 2} /\ p[1] = a /\ p[2] = b
    BY <1>1
<1> QED BY <1>1, <1>2, Zenon DEF ToSet

\* The table that is no table.
Facing(slots) == [t \in 1..Len(slots) \div 2 |-> <<slots[t], slots[Len(slots) + 1 - t]>>]
EmptyTable(slots, n) ==
    IF n % 2 = 0 THEN Len(slots) ELSE CHOOSE t \in 1..Len(slots) \div 2 : 0 \in ToSet(Facing(slots)[t])

\* The slots that face each other at the t-th table that is one.
TableOf(e, t) == IF t < e THEN t ELSE t + 1

\* The pairs and the bye in terms of the slots.
LEMMA PairingsBySlot ==
    ASSUME NEW n, NEW slots
    PROVE  /\ PairingsOf(slots, n).pairs = [t \in 1..n \div 2 |-> Facing(slots)[TableOf(EmptyTable(slots, n), t)]]
           /\ PairingsOf(slots, n).bye = IF n % 2 = 0 THEN {} ELSE ToSet(Facing(slots)[EmptyTable(slots, n)]) \ {0}
<1>1. PairingsOf(slots, n) = [pairs |-> [t \in 1..n \div 2 |-> Facing(slots)[TableOf(EmptyTable(slots, n), t)]],
                              bye |-> IF n % 2 = 0 THEN {} ELSE ToSet(Facing(slots)[EmptyTable(slots, n)]) \ {0}]
    BY Zenon DEF PairingsOf, EmptyTable, TableOf, Facing
<1>2. PICK x, y : /\ x = [t \in 1..n \div 2 |-> Facing(slots)[TableOf(EmptyTable(slots, n), t)]]
                  /\ y = IF n % 2 = 0 THEN {} ELSE ToSet(Facing(slots)[EmptyTable(slots, n)]) \ {0}
    OBVIOUS
<1>3. PairingsOf(slots, n).pairs = x /\ PairingsOf(slots, n).bye = y
    <2>1. PairingsOf(slots, n) = [pairs |-> x, bye |-> y]
        BY <1>1, <1>2, Zenon
    <2> QED BY <2>1
<1> QED BY <1>2, <1>3, Zenon

\* Who meets whom in a round.
RoundIsFair(P, n, m, r) ==
    /\ DOMAIN P.pairs = 1..n \div 2
    /\ \A t \in 1..n \div 2 :
          /\ P.pairs[t] = <<P.pairs[t][1], P.pairs[t][2]>>
          /\ P.pairs[t][1] \in 1..n /\ P.pairs[t][2] \in 1..n
          /\ FaceIn(m, r, P.pairs[t][1], P.pairs[t][2])
    /\ \A t, u \in 1..n \div 2 : t /= u => {P.pairs[t][1], P.pairs[t][2]} \cap {P.pairs[u][1], P.pairs[u][2]} = {}
    /\ \A x, y \in 1..n : FaceIn(m, r, x, y) => \E t \in 1..n \div 2 : {P.pairs[t][1], P.pairs[t][2]} = {x, y}
    /\ P.bye = { x \in 1..n : n % 2 = 1 /\ FaceIn(m, r, x, m) }

\* A round of circle_rounds is fair: everyone sits at one table or rests.
LEMMA RoundFacts ==
    ASSUME NEW n \in Nat, n >= 2, NEW m \in Nat, m = n + (n % 2), NEW r \in 1..m - 1,
           NEW P, P = circle_rounds(n)[r]
    PROVE  RoundIsFair(P, n, m, r)
<1>0. PICK slots : slots = SlotsOf(n)[r]
    OBVIOUS
<1>1. slots = [i \in 1..m |-> Starting(n, CameFrom(m, r, i))] /\ DOMAIN SlotsOf(n) = 1..m - 1
    BY <1>0, SlotsFacts
<1>2. P = PairingsOf(slots, n)
    BY <1>0, <1>1 DEF circle_rounds
<1>3. PICK h \in Nat :
               /\ h >= 1 /\ m = 2 * h /\ m \div 2 = h
               /\ \/ n % 2 = 0 /\ n = 2 * h /\ n \div 2 = h
                  \/ n % 2 = 1 /\ n = (2 * h) - 1 /\ n \div 2 = h - 1 /\ h >= 2
    BY HalfFacts
<1>4. /\ \A x \in 1..m : Moved(m, r, x) \in 1..m /\ CameFrom(m, r, Moved(m, r, x)) = x
      /\ \A i \in 1..m : CameFrom(m, r, i) \in 1..m /\ Moved(m, r, CameFrom(m, r, i)) = i
    BY CameFromMoved
<1>5. Len(slots) = m /\ \A i \in 1..m : slots[i] = Starting(n, CameFrom(m, r, i))
    BY <1>1
<1>6. PICK z : z = Moved(m, r, m)
    OBVIOUS
<1>7. z \in 1..m /\ CameFrom(m, r, z) = m
    BY <1>3, <1>4, <1>6
<1>8. ASSUME NEW i \in 1..m, n % 2 = 0 \/ i /= z
      PROVE  slots[i] = CameFrom(m, r, i) /\ slots[i] \in 1..n /\ Moved(m, r, slots[i]) = i
    <2>1. CameFrom(m, r, i) \in 1..m /\ Moved(m, r, CameFrom(m, r, i)) = i
        BY <1>4
    <2>2. CameFrom(m, r, i) <= n
        BY <1>3, <1>6, <1>8, <2>1
    <2> QED BY <1>5, <2>1, <2>2 DEF Starting
<1>9. n % 2 = 1 => slots[z] = 0
    BY <1>3, <1>5, <1>7 DEF Starting
<1>10. PICK e : e = EmptyTable(slots, n)
    OBVIOUS
<1>20. \A t \in 1..h : Facing(slots)[t] = <<slots[t], slots[m + 1 - t]>>
    <2>1. Facing(slots) = [t \in 1..h |-> <<slots[t], slots[m + 1 - t]>>]
        BY <1>3, <1>5 DEF Facing
    <2> QED BY <2>1
<1>11. /\ n % 2 = 0 => e = m
       /\ n % 2 = 1 => e \in 1..h /\ (e = z \/ e = m + 1 - z)
    <2>1. CASE n % 2 = 0
        BY <1>5, <1>10, <2>1 DEF EmptyTable
    <2>2. CASE n % 2 = 1
        <3> DEFINE facing == Facing(slots)
        <3>1. \A t \in 1..h : ToSet(facing[t]) = {slots[t], slots[m + 1 - t]}
            BY <1>20, PairElements
        <3>2. PICK t \in 1..h : t = z \/ t = m + 1 - z
            <4>1. z \in 1..h \/ m + 1 - z \in 1..h
                BY <1>3, <1>7
            <4> QED BY <4>1
        <3>3. t = z \/ m + 1 - t = z
            BY <1>3, <1>7, <3>2
        <3>4. 0 \in ToSet(facing[t])
            BY <1>9, <2>2, <3>1, <3>3
        <3>5. e = CHOOSE u \in 1..h : 0 \in ToSet(facing[u])
            <4>1. n % 2 /= 0
                BY <2>2
            <4>2. e = CHOOSE u \in 1..Len(slots) \div 2 : 0 \in ToSet(facing[u])
                BY <1>10, <4>1, Zenon DEF EmptyTable
            <4>3. 1..Len(slots) \div 2 = 1..h
                BY <1>3, <1>5
            <4> QED BY <4>2, <4>3, Zenon
        <3> HIDE DEF facing
        <3>6. e \in 1..h /\ 0 \in ToSet(facing[e])
            BY <3>4, <3>5, Zenon
        <3>7. 0 \in {slots[e], slots[m + 1 - e]}
            BY <3>1, <3>6
        <3>8. e \in 1..m /\ m + 1 - e \in 1..m
            BY <1>3, <3>6
        <3>9. e = z \/ m + 1 - e = z
            <4>1. slots[e] = 0 \/ slots[m + 1 - e] = 0
                BY <3>7
            <4>2. \A i \in 1..m : i /= z => slots[i] /= 0
                BY <1>8
            <4> QED BY <3>8, <4>1, <4>2
        <3> QED BY <1>7, <2>2, <3>6, <3>8, <3>9
    <2> QED BY <2>1, <2>2, <1>3
<1>12. ASSUME NEW t \in 1..n \div 2
       PROVE  /\ TableOf(e, t) \in 1..h /\ (n % 2 = 1 => TableOf(e, t) /= e)
              /\ n % 2 = 0 => TableOf(e, t) = t
    BY <1>3, <1>11 DEF TableOf
<1>13. /\ P.pairs = [t \in 1..n \div 2 |-> <<slots[TableOf(e, t)], slots[m + 1 - TableOf(e, t)]>>]
       /\ P.bye = IF n % 2 = 0 THEN {} ELSE {slots[e], slots[m + 1 - e]} \ {0}
    <2>1. /\ P.pairs = [t \in 1..n \div 2 |-> Facing(slots)[TableOf(e, t)]]
          /\ P.bye = IF n % 2 = 0 THEN {} ELSE ToSet(Facing(slots)[e]) \ {0}
        <3>1. PairingsOf(slots, n).pairs = [t \in 1..n \div 2 |-> Facing(slots)[TableOf(EmptyTable(slots, n), t)]]
            BY PairingsBySlot, Zenon
        <3>2. PairingsOf(slots, n).bye = IF n % 2 = 0 THEN {} ELSE ToSet(Facing(slots)[EmptyTable(slots, n)]) \ {0}
            BY PairingsBySlot, Zenon
        <3> QED BY <1>2, <1>10, <3>1, <3>2, Zenon
    <2>2. \A t \in 1..n \div 2 : Facing(slots)[TableOf(e, t)] = <<slots[TableOf(e, t)], slots[m + 1 - TableOf(e, t)]>>
        BY <1>12, <1>20, Zenon
    <2>3. P.pairs = [t \in 1..n \div 2 |-> <<slots[TableOf(e, t)], slots[m + 1 - TableOf(e, t)]>>]
        BY <2>1, <2>2, Zenon
    <2>4. n % 2 = 1 => ToSet(Facing(slots)[e]) = {slots[e], slots[m + 1 - e]}
        BY <1>11, <1>20, PairElements
    <2>5. n % 2 = 0 \/ n % 2 = 1
        BY <1>3
    <2> QED BY <2>1, <2>3, <2>4, <2>5
<1>14. ASSUME NEW t \in 1..n \div 2
       PROVE  /\ P.pairs[t] = <<P.pairs[t][1], P.pairs[t][2]>>
              /\ P.pairs[t][1] \in 1..n /\ P.pairs[t][2] \in 1..n
              /\ Moved(m, r, P.pairs[t][1]) = TableOf(e, t)
              /\ Moved(m, r, P.pairs[t][2]) = m + 1 - TableOf(e, t)
              /\ TableOf(e, t) \in 1..h
    <2>1. PICK k : k = TableOf(e, t)
        OBVIOUS
    <2>2. k \in 1..m /\ m + 1 - k \in 1..m /\ (n % 2 = 0 \/ (k /= z /\ m + 1 - k /= z)) /\ k \in 1..h
        BY <1>3, <1>7, <1>11, <1>12, <2>1
    <2>3. P.pairs[t] = <<slots[k], slots[m + 1 - k]>>
        BY <1>13, <2>1
    <2>4. /\ slots[k] \in 1..n /\ Moved(m, r, slots[k]) = k
          /\ slots[m + 1 - k] \in 1..n /\ Moved(m, r, slots[m + 1 - k]) = m + 1 - k
        BY <1>8, <2>2
    <2>5. P.pairs[t][1] = slots[k] /\ P.pairs[t][2] = slots[m + 1 - k]
        BY <2>3
    <2> QED BY <2>1, <2>2, <2>3, <2>4, <2>5
<1>15. ASSUME NEW t \in 1..n \div 2, NEW u \in 1..n \div 2, t /= u
       PROVE  {P.pairs[t][1], P.pairs[t][2]} \cap {P.pairs[u][1], P.pairs[u][2]} = {}
    <2>1. TableOf(e, t) /= TableOf(e, u)
        <3>1. e \in Int
            BY <1>3, <1>11
        <3> QED BY <1>15, <3>1 DEF TableOf
    <2>2. PICK k, j : k = TableOf(e, t) /\ j = TableOf(e, u)
        OBVIOUS
    <2>3. k \in 1..h /\ j \in 1..h /\ k /= j
        BY <1>14, <2>1, <2>2
    <2>4. k /= m + 1 - j /\ j /= m + 1 - k /\ m + 1 - k /= m + 1 - j
        BY <1>3, <2>3
    <2>5. /\ Moved(m, r, P.pairs[t][1]) = k /\ Moved(m, r, P.pairs[t][2]) = m + 1 - k
          /\ Moved(m, r, P.pairs[u][1]) = j /\ Moved(m, r, P.pairs[u][2]) = m + 1 - j
        BY <1>14, <2>2
    <2> QED BY <2>3, <2>4, <2>5, Zenon
<1>16. ASSUME NEW x \in 1..n, NEW y \in 1..n, Moved(m, r, x) + Moved(m, r, y) = m + 1, Moved(m, r, x) <= h
       PROVE  \E t \in 1..n \div 2 : {P.pairs[t][1], P.pairs[t][2]} = {x, y}
    <2>1. x \in 1..m /\ y \in 1..m
        BY <1>3
    <2>2. PICK i, j : i = Moved(m, r, x) /\ j = Moved(m, r, y)
        OBVIOUS
    <2>3. i \in 1..h /\ j \in 1..m /\ j = m + 1 - i /\ CameFrom(m, r, i) = x /\ CameFrom(m, r, j) = y
        BY <1>3, <1>4, <1>16, <2>1, <2>2
    <2>4. n % 2 = 1 => i /= z /\ j /= z
        BY <1>3, <1>7, <2>3
    <2>5. n % 2 = 1 => i /= e
        BY <1>3, <1>7, <1>11, <2>3, <2>4
    <2>6. PICK t \in 1..n \div 2 : TableOf(e, t) = i
        <3>1. CASE n % 2 = 0
            <4>1. i \in 1..n \div 2
                BY <1>3, <2>3, <3>1
            <4> QED BY <1>12, <3>1, <4>1
        <3>2. CASE n % 2 = 1 /\ i < e
            <4>1. i \in 1..n \div 2 /\ TableOf(e, i) = i
                BY <1>3, <1>11, <2>3, <3>2 DEF TableOf
            <4> QED BY <4>1
        <3>3. CASE n % 2 = 1 /\ ~(i < e)
            <4>1. i - 1 \in 1..n \div 2 /\ TableOf(e, i - 1) = i
                BY <1>3, <1>11, <2>3, <2>5, <3>3 DEF TableOf
            <4> QED BY <4>1
        <3> QED BY <1>3, <3>1, <3>2, <3>3
    <2>7. P.pairs[t][1] = slots[i] /\ P.pairs[t][2] = slots[j]
        BY <1>13, <2>3, <2>6
    <2>8. i \in 1..m
        BY <1>3, <2>3
    <2>9. slots[i] = x /\ slots[j] = y
        BY <1>3, <1>8, <2>3, <2>4, <2>8
    <2> QED BY <2>7, <2>9
<1>17. ASSUME NEW x \in 1..n, NEW y \in 1..n, Moved(m, r, x) + Moved(m, r, y) = m + 1
       PROVE  \E t \in 1..n \div 2 : {P.pairs[t][1], P.pairs[t][2]} = {x, y}
    <2>1. Moved(m, r, x) \in 1..m /\ Moved(m, r, y) \in 1..m
        BY <1>3, <1>4
    <2>2. Moved(m, r, x) <= h \/ Moved(m, r, y) <= h
        BY <1>3, <1>17, <2>1
    <2>3. Moved(m, r, y) + Moved(m, r, x) = m + 1
        BY <1>17, <2>1
    <2>4. CASE Moved(m, r, x) <= h
        BY <1>16, <1>17, <2>4, Zenon
    <2>5. CASE Moved(m, r, y) <= h
        <3>1. \E t \in 1..n \div 2 : {P.pairs[t][1], P.pairs[t][2]} = {y, x}
            BY <1>16, <2>3, <2>5, Zenon
        <3>2. {y, x} = {x, y}
            OBVIOUS
        <3> QED BY <3>1, <3>2, Zenon
    <2> QED BY <2>2, <2>4, <2>5
<1>18. P.bye = { x \in 1..n : n % 2 = 1 /\ Moved(m, r, x) + Moved(m, r, m) = m + 1 }
    <2>1. CASE n % 2 = 0
        BY <1>13, <2>1
    <2>2. CASE n % 2 = 1
        <3>1. PICK w : w = m + 1 - z
            OBVIOUS
        <3>2. w \in 1..m /\ w /= z
            BY <1>3, <1>7, <3>1
        <3>3. slots[w] \in 1..n /\ Moved(m, r, slots[w]) = w /\ slots[w] = CameFrom(m, r, w)
            BY <1>8, <3>2
        <3>4. {slots[e], slots[m + 1 - e]} = {0, slots[w]}
            <4>1. (e = z /\ m + 1 - e = w) \/ (e = w /\ m + 1 - e = z)
                BY <1>3, <1>7, <1>11, <2>2, <3>1
            <4>2. slots[z] = 0
                BY <1>9, <2>2
            <4> QED BY <4>1, <4>2
        <3>5. P.bye = {slots[w]}
            BY <1>13, <2>2, <3>3, <3>4, SMTT(40)
        <3>6. ASSUME NEW x \in 1..n, Moved(m, r, x) + Moved(m, r, m) = m + 1
              PROVE  x = slots[w]
            <4>1. Moved(m, r, x) \in 1..m /\ CameFrom(m, r, Moved(m, r, x)) = x
                BY <1>3, <1>4
            <4>2. Moved(m, r, x) = w
                BY <1>6, <1>7, <3>1, <3>6, <4>1
            <4> QED BY <3>3, <4>1, <4>2
        <3>7. Moved(m, r, slots[w]) + Moved(m, r, m) = m + 1
            BY <1>6, <1>7, <3>1, <3>3
        <3> QED BY <2>2, <3>3, <3>5, <3>6, <3>7
    <2> QED BY <1>3, <2>1, <2>2
<1>19. DOMAIN P.pairs = 1..n \div 2
    BY <1>13
<1>21. ASSUME NEW t \in 1..n \div 2
       PROVE  Moved(m, r, P.pairs[t][1]) + Moved(m, r, P.pairs[t][2]) = m + 1
    <2>1. TableOf(e, t) \in Int
        BY <1>14
    <2> QED BY <1>14, <2>1
<1> QED BY <1>14, <1>15, <1>17, <1>18, <1>19, <1>21, Zenon DEF RoundIsFair, FaceIn

\* The rounds of a cycle: nobody is at two tables, any two meet in one round,
\* and of an odd field everybody rests in one.
PairAt(n, r, t) == circle_rounds(n)[r].pairs[t]
MeetAt(n, r, t) == {PairAt(n, r, t)[1], PairAt(n, r, t)[2]}
RestAt(n, r) == circle_rounds(n)[r].bye

CircleIsFair(n, M, T) ==
    /\ \A r \in 1..M : DOMAIN circle_rounds(n)[r].pairs = 1..T
    /\ \A r \in 1..M, t \in 1..T :
          /\ PairAt(n, r, t) = <<PairAt(n, r, t)[1], PairAt(n, r, t)[2]>>
          /\ PairAt(n, r, t)[1] \in 1..n /\ PairAt(n, r, t)[2] \in 1..n
          /\ PairAt(n, r, t)[1] /= PairAt(n, r, t)[2]
          /\ MeetAt(n, r, t) \cap RestAt(n, r) = {}
    /\ \A r \in 1..M, t, u \in 1..T : t /= u => MeetAt(n, r, t) \cap MeetAt(n, r, u) = {}
    /\ \A a, b \in 1..n : a /= b => \E r \in 1..M, t \in 1..T : MeetAt(n, r, t) = {a, b}
    /\ \A r, q \in 1..M, t, u \in 1..T : MeetAt(n, r, t) = MeetAt(n, q, u) => r = q /\ t = u
    /\ \A r \in 1..M : RestAt(n, r) \subseteq 1..n /\ (n % 2 = 0 => RestAt(n, r) = {})
    /\ \A a \in 1..n : n % 2 = 1 => \E r \in 1..M : a \in RestAt(n, r)
    /\ \A a \in 1..n, r, q \in 1..M : a \in RestAt(n, r) /\ a \in RestAt(n, q) => r = q

\* circle_rounds lets every two entrants meet once and rests each as often.
LEMMA CircleFacts ==
    ASSUME NEW n \in Nat, n >= 2, NEW M \in Nat, M = (n + (n % 2)) - 1
    PROVE  /\ DOMAIN circle_rounds(n) = 1..M /\ M >= 1
           /\ CircleIsFair(n, M, n \div 2)
<1>1. PICK h \in Nat :
               /\ h >= 1 /\ n + (n % 2) = 2 * h
               /\ \/ n % 2 = 0 /\ n = 2 * h /\ n \div 2 = h
                  \/ n % 2 = 1 /\ n = (2 * h) - 1 /\ n \div 2 = h - 1 /\ h >= 2
    BY HalfFacts
<1>2. PICK m \in Nat : m = n + (n % 2) /\ m = 2 * h /\ M = m - 1 /\ n <= m /\ (n % 2 = 1 => n = m - 1)
    BY <1>1
<1>3. DOMAIN circle_rounds(n) = 1..M /\ M >= 1
    BY <1>1, <1>2, SlotsFacts DEF circle_rounds
<1>4. ASSUME NEW r \in 1..M
      PROVE  /\ DOMAIN circle_rounds(n)[r].pairs = 1..n \div 2
             /\ \A t \in 1..n \div 2 :
                   /\ PairAt(n, r, t) = <<PairAt(n, r, t)[1], PairAt(n, r, t)[2]>>
                   /\ PairAt(n, r, t)[1] \in 1..n /\ PairAt(n, r, t)[2] \in 1..n
                   /\ FaceIn(m, r, PairAt(n, r, t)[1], PairAt(n, r, t)[2])
             /\ \A t, u \in 1..n \div 2 : t /= u => MeetAt(n, r, t) \cap MeetAt(n, r, u) = {}
             /\ \A x, y \in 1..n : FaceIn(m, r, x, y) => \E t \in 1..n \div 2 : MeetAt(n, r, t) = {x, y}
             /\ RestAt(n, r) = { x \in 1..n : n % 2 = 1 /\ FaceIn(m, r, x, m) }
    <2>1. PICK P : P = circle_rounds(n)[r]
        OBVIOUS
    <2>2. r \in 1..m - 1
        BY <1>2
    <2>3. RoundIsFair(P, n, m, r)
        BY <1>2, <2>1, <2>2, RoundFacts
    <2>4. RoundIsFair(circle_rounds(n)[r], n, m, r)
        BY <2>1, <2>3
    <2> QED BY <2>4 DEF PairAt, MeetAt, RestAt, RoundIsFair
<1>5. ASSUME NEW x \in 1..m, NEW y \in 1..m, x /= y
      PROVE  /\ \E r \in 1..M : FaceIn(m, r, x, y)
             /\ \A r \in 1..M, q \in 1..M : FaceIn(m, r, x, y) /\ FaceIn(m, q, x, y) => r = q
    <2>1. 1..M = 1..m - 1
        BY <1>2
    <2>2. /\ \E r \in 1..m - 1 : FaceIn(m, r, x, y)
          /\ \A r \in 1..m - 1, q \in 1..m - 1 : (FaceIn(m, r, x, y) /\ FaceIn(m, q, x, y)) => r = q
        BY <1>2, <1>5, OneRoundEach
    <2> QED BY <2>1, <2>2, Zenon
<1>6. \A r \in 1..M, x, y \in 1..m : /\ FaceIn(m, r, x, y) => FaceIn(m, r, y, x) /\ x /= y
                                     /\ \A z \in 1..m : FaceIn(m, r, x, y) /\ FaceIn(m, r, x, z) => y = z
    <2>1. ASSUME NEW r \in 1..M, NEW x \in 1..m, NEW y \in 1..m, FaceIn(m, r, x, y)
          PROVE  /\ FaceIn(m, r, y, x) /\ x /= y
                 /\ \A z \in 1..m : FaceIn(m, r, x, z) => y = z
        <3>1. r \in 1..m - 1
            BY <1>2
        <3>2. \A z \in 1..m : Moved(m, r, z) \in 1..m /\ CameFrom(m, r, Moved(m, r, z)) = z
            BY <3>1, CameFromMoved
        <3>3. FaceIn(m, r, y, x)
            BY <2>1, <3>2 DEF FaceIn
        <3>4. x /= y
            BY <1>2, <2>1, <3>2 DEF FaceIn
        <3>5. ASSUME NEW z \in 1..m, FaceIn(m, r, x, z)
              PROVE  y = z
            <4>1. Moved(m, r, y) = Moved(m, r, z)
                BY <2>1, <3>2, <3>5 DEF FaceIn
            <4> QED BY <3>2, <4>1
        <3> QED BY <3>3, <3>4, <3>5
    <2> QED BY <2>1
<1>7. \A x \in 1..n : x \in 1..m
    BY <1>2
<1>8. ASSUME NEW r \in 1..M, NEW t \in 1..n \div 2
      PROVE  /\ PairAt(n, r, t)[1] /= PairAt(n, r, t)[2]
             /\ MeetAt(n, r, t) \cap RestAt(n, r) = {}
    <2>1. PICK x, y : x = PairAt(n, r, t)[1] /\ y = PairAt(n, r, t)[2]
        OBVIOUS
    <2>2. x \in 1..n /\ y \in 1..n /\ FaceIn(m, r, x, y) /\ x \in 1..m /\ y \in 1..m
        BY <1>4, <1>7, <2>1
    <2>3. x /= y /\ FaceIn(m, r, y, x)
        BY <1>6, <2>2
    <2>4. ASSUME n % 2 = 1
          PROVE  ~FaceIn(m, r, x, m) /\ ~FaceIn(m, r, y, m)
        <3>1. m \in 1..m /\ m \notin 1..n
            BY <1>1, <1>2, <2>4
        <3>2. x /= m /\ y /= m
            BY <2>2, <3>1
        <3> QED BY <1>6, <2>2, <2>3, <3>1, <3>2
    <2>5. x \notin RestAt(n, r) /\ y \notin RestAt(n, r)
        BY <1>4, <2>4, Zenon
    <2> QED BY <2>1, <2>3, <2>5 DEF MeetAt
<1>9. ASSUME NEW a \in 1..n, NEW b \in 1..n, a /= b
      PROVE  \E r \in 1..M, t \in 1..n \div 2 : MeetAt(n, r, t) = {a, b}
    <2>1. PICK r \in 1..M : FaceIn(m, r, a, b)
        BY <1>5, <1>7, <1>9
    <2>2. PICK t \in 1..n \div 2 : MeetAt(n, r, t) = {a, b}
        <3>1. \A x, y \in 1..n : FaceIn(m, r, x, y) => \E t \in 1..n \div 2 : MeetAt(n, r, t) = {x, y}
            BY <1>4, Zenon
        <3> QED BY <2>1, <3>1, Zenon
    <2> QED BY <2>2
<1>10. ASSUME NEW r \in 1..M, NEW q \in 1..M, NEW t \in 1..n \div 2, NEW u \in 1..n \div 2,
              MeetAt(n, r, t) = MeetAt(n, q, u)
       PROVE  r = q /\ t = u
    <2>1. PICK x, y : x = PairAt(n, r, t)[1] /\ y = PairAt(n, r, t)[2]
        OBVIOUS
    <2>2. PICK v, w : v = PairAt(n, q, u)[1] /\ w = PairAt(n, q, u)[2]
        OBVIOUS
    <2>3. x \in 1..n /\ y \in 1..n /\ FaceIn(m, r, x, y) /\ x /= y /\ x \in 1..m /\ y \in 1..m
        BY <1>4, <1>7, <1>8, <2>1
    <2>4. v \in 1..n /\ w \in 1..n /\ FaceIn(m, q, v, w) /\ v \in 1..m /\ w \in 1..m
        BY <1>4, <1>7, <2>2
    <2>5. {x, y} = {v, w}
        BY <1>10, <2>1, <2>2 DEF MeetAt
    <2>6. (v = x /\ w = y) \/ (v = y /\ w = x)
        BY <2>3, <2>5
    <2>7. FaceIn(m, q, x, y)
        BY <1>6, <2>4, <2>6
    <2>8. r = q
        BY <1>5, <2>3, <2>7
    <2>9. MeetAt(n, r, t) \cap MeetAt(n, r, u) /= {}
        BY <1>10, <2>8 DEF MeetAt
    <2> QED BY <1>4, <2>8, <2>9
<1>11. ASSUME NEW a \in 1..n, n % 2 = 1
       PROVE  /\ \E r \in 1..M : a \in RestAt(n, r)
              /\ \A r, q \in 1..M : a \in RestAt(n, r) /\ a \in RestAt(n, q) => r = q
    <2>1. m \in 1..m /\ a \in 1..m /\ a /= m
        BY <1>1, <1>2, <1>11
    <2>2. /\ \E r \in 1..M : FaceIn(m, r, a, m)
          /\ \A r \in 1..M, q \in 1..M : FaceIn(m, r, a, m) /\ FaceIn(m, q, a, m) => r = q
        BY <1>5, <2>1
    <2>3. \A r \in 1..M : a \in RestAt(n, r) <=> FaceIn(m, r, a, m)
        BY <1>4, <1>11, ZenonT(60)
    <2> QED BY <2>2, <2>3, Zenon
<1>12. n % 2 = 0 => n % 2 /= 1
    OBVIOUS
<1>13. \A r \in 1..M : RestAt(n, r) \subseteq 1..n /\ (n % 2 = 0 => RestAt(n, r) = {})
    BY <1>4, <1>12, Zenon
<1>14. \A a \in 1..n, r, q \in 1..M : a \in RestAt(n, r) /\ a \in RestAt(n, q) => r = q
    BY <1>4, <1>11, Zenon
<1>15. \A r \in 1..M : DOMAIN circle_rounds(n)[r].pairs = 1..n \div 2
    BY <1>4
<1>16. \A r \in 1..M, t \in 1..n \div 2 :
          /\ PairAt(n, r, t) = <<PairAt(n, r, t)[1], PairAt(n, r, t)[2]>>
          /\ PairAt(n, r, t)[1] \in 1..n /\ PairAt(n, r, t)[2] \in 1..n
          /\ PairAt(n, r, t)[1] /= PairAt(n, r, t)[2]
          /\ MeetAt(n, r, t) \cap RestAt(n, r) = {}
    BY <1>4, <1>8, Zenon
<1>17. \A r \in 1..M, t, u \in 1..n \div 2 : t /= u => MeetAt(n, r, t) \cap MeetAt(n, r, u) = {}
    BY <1>4, Zenon
<1> QED BY <1>3, <1>9, <1>10, <1>11, <1>13, <1>14, <1>15, <1>16, <1>17, Zenon DEF CircleIsFair

\* Quotient and remainder of a place.
LEMMA CycleAndRound ==
    ASSUME NEW M \in Nat \ {0}, NEW c \in Nat, NEW r \in 1..M
    PROVE  (Place(c + 1, r, M) - 1) \div M = c /\ ((Place(c + 1, r, M) - 1) % M) + 1 = r
<1>1. (c + 1) - 1 = c
    OBVIOUS
<1>2. PICK p : p = c * M
    OBVIOUS
<1>3. p \in Nat
    BY <1>2, TimesFacts
<1>4. Place(c + 1, r, M) - 1 = p + (r - 1)
    BY <1>1, <1>2, <1>3 DEF Place
<1>5. (p + (r - 1)) \div M = c /\ (p + (r - 1)) % M = r - 1
    BY <1>2, <1>3
<1> QED BY <1>4, <1>5

-----------------------------------------------------------------------------
(* Schedules: who has the first seat *)

\* The smaller of two numbers.
LEMMA MinOfTwo ==
    ASSUME NEW a \in Int, NEW b \in Int
    PROVE  Min({a, b}) = IF a <= b THEN a ELSE b
<1>1. Min({a, b}) = CHOOSE x \in {a, b} : \A y \in {a, b} : x =< y
    BY DEF Min
<1>2. \E x \in {a, b} : \A y \in {a, b} : x =< y
    OBVIOUS
<1>3. PICK x : x = Min({a, b})
    OBVIOUS
<1>4. x \in {a, b} /\ \A y \in {a, b} : x =< y
    BY <1>1, <1>2, <1>3, Zenon
<1> QED BY <1>3, <1>4

\* How far b is ahead of a around the table of n, and who of the two then has
\* the first seat in the first cycle.
AheadBy(a, b, n) == IF b > a THEN b - a ELSE (b - a) + n
FirstOf(a, b, n) ==
    IF 2 * AheadBy(a, b, n) = n
    THEN IF a < b THEN (a - 1) % 2 = 0 ELSE (b - 1) % 2 = 1
    ELSE 2 * AheadBy(a, b, n) < n
Leads(a, b, n, c) == IF c % 2 = 1 THEN ~FirstOf(a, b, n) ELSE FirstOf(a, b, n)

\* orient_static_round keeps a pair, and gives the first seat to the one who leads.
LEMMA OrientFacts ==
    ASSUME NEW n \in Nat, NEW a \in 1..n, NEW b \in 1..n, a /= b, NEW c \in Nat
    PROVE  OrientPair(<<a, b>>, n, c) = IF Leads(a, b, n, c) THEN <<a, b>> ELSE <<b, a>>
<1>1. PICK d : d = AheadBy(a, b, n)
    OBVIOUS
<1>2. d \in 1..n - 1 /\ n \in Nat /\ n > 0
    BY <1>1 DEF AheadBy
<1>3. (b - a + n) % n = d
    <2>1. \A k \in 1..n - 1 : k % n = k /\ (k + n) % n = k
        BY <1>2
    <2>2. CASE b > a
        <3>1. d = b - a /\ b - a + n = d + n
            BY <1>1, <2>2 DEF AheadBy
        <3> QED BY <1>2, <2>1, <3>1
    <2>3. CASE ~(b > a)
        <3>1. b - a + n = d
            BY <1>1, <2>3 DEF AheadBy
        <3> QED BY <1>2, <2>1, <3>1
    <2> QED BY <2>2, <2>3
<1>4. (n % 2 = 0 /\ d = n \div 2) <=> 2 * d = n
    BY <1>2
<1>5. 2 * d /= n => (d <= n \div 2 <=> 2 * d < n)
    BY <1>2
<1>6. Min({a, b}) = IF a < b THEN a ELSE b
    BY MinOfTwo
<1>7. PICK p : p = <<a, b>>
    OBVIOUS
<1>8. p[1] = a /\ p[2] = b
    BY <1>7
<1> DEFINE first == IF n % 2 = 0 /\ d = n \div 2
                    THEN ((Min({a, b}) - 1) % 2 = 0) = (a < b)
                    ELSE d <= n \div 2
<1>9. OrientPair(p, n, c) = IF first /= (c % 2 = 1) THEN p ELSE <<b, a>>
    BY <1>3, <1>8, Zenon DEF OrientPair
<1>10. first <=> FirstOf(a, b, n)
    <2>1. CASE 2 * d = n
        <3>1. first <=> (((Min({a, b}) - 1) % 2 = 0) <=> (a < b))
            BY <1>4, <2>1
        <3>2. (((Min({a, b}) - 1) % 2 = 0) <=> (a < b)) <=> IF a < b THEN (a - 1) % 2 = 0 ELSE (b - 1) % 2 = 1
            BY <1>6
        <3> QED BY <1>1, <2>1, <3>1, <3>2, Zenon DEF FirstOf
    <2>2. CASE 2 * d /= n
        BY <1>1, <1>4, <1>5, <2>2 DEF FirstOf
    <2> QED BY <2>1, <2>2
<1>11. (first /= (c % 2 = 1)) <=> Leads(a, b, n, c)
    <2>1. first \in BOOLEAN
        <3>1. (((Min({a, b}) - 1) % 2 = 0) = (a < b)) \in BOOLEAN
            BY Zenon
        <3>2. (d <= n \div 2) \in BOOLEAN
            <4>1. \A i, j \in Int : (i <= j) \in BOOLEAN
                OBVIOUS
            <4>2. d \in Int /\ n \div 2 \in Int
                BY <1>2
            <4> QED BY <4>1, <4>2, Zenon
        <3> QED BY <3>1, <3>2, Zenon
    <2> HIDE DEF first
    <2> QED BY <1>10, <2>1, Zenon DEF Leads
<1> HIDE DEF first
<1> QED BY <1>7, <1>9, <1>11, Zenon

\* The first seat changes with the order of the pair and with the cycle.
LEMMA LeadsFacts ==
    ASSUME NEW n \in Nat, NEW a \in 1..n, NEW b \in 1..n, a /= b, NEW c \in Nat
    PROVE  /\ Leads(b, a, n, c) <=> ~Leads(a, b, n, c)
           /\ Leads(a, b, n, c + 1) <=> ~Leads(a, b, n, c)
<1>1. PICK d : d = AheadBy(a, b, n)
    OBVIOUS
<1>2. d \in 1..n - 1 /\ AheadBy(b, a, n) = n - d
    BY <1>1 DEF AheadBy
<1>3. FirstOf(b, a, n) <=> ~FirstOf(a, b, n)
    <2>1. CASE 2 * d = n
        <3>1. 2 * (n - d) = n
            BY <1>2, <2>1
        <3>2. FirstOf(a, b, n) <=> IF a < b THEN (a - 1) % 2 = 0 ELSE (b - 1) % 2 = 1
            BY <1>1, <2>1 DEF FirstOf
        <3>3. FirstOf(b, a, n) <=> IF b < a THEN (b - 1) % 2 = 0 ELSE (a - 1) % 2 = 1
            BY <1>2, <3>1 DEF FirstOf
        <3> QED BY <3>2, <3>3
    <2>2. CASE 2 * d /= n
        <3>1. 2 * (n - d) /= n /\ (2 * (n - d) < n <=> ~(2 * d < n))
            BY <1>2, <2>2
        <3> QED BY <1>1, <1>2, <2>2, <3>1 DEF FirstOf
    <2> QED BY <2>1, <2>2
<1>4. (c + 1) % 2 = 1 <=> ~(c % 2 = 1)
    OBVIOUS
<1> QED BY <1>3, <1>4, Zenon DEF Leads

\* Who is as far behind a as b is ahead.
Mirror(a, b, n) ==
    IF (2 * a) - b < 1 THEN ((2 * a) - b) + n
    ELSE IF (2 * a) - b > n THEN ((2 * a) - b) - n ELSE (2 * a) - b

\* The first seat against the one ahead goes with the second seat against the
\* one behind; only who sits right opposite is both.
LEMMA MirrorFacts ==
    ASSUME NEW n \in Nat, NEW a \in 1..n, NEW b \in 1..n, a /= b
    PROVE  /\ Mirror(a, b, n) \in 1..n /\ Mirror(a, b, n) /= a
           /\ Mirror(a, Mirror(a, b, n), n) = b
           /\ \A c \in Nat : Mirror(a, b, n) /= b => (Leads(a, Mirror(a, b, n), n, c) <=> ~Leads(a, b, n, c))
           /\ \A x \in 1..n : (x /= a /\ Mirror(a, b, n) = b /\ Mirror(a, x, n) = x) => x = b
<1>1. PICK x : x = Mirror(a, b, n)
    OBVIOUS
<1>2. x \in 1..n /\ x /= a /\ Mirror(a, x, n) = b
    BY <1>1 DEF Mirror
<1>3. PICK d : d = AheadBy(a, b, n)
    OBVIOUS
<1>4. d \in 1..n - 1 /\ AheadBy(a, x, n) = n - d
    BY <1>1, <1>3 DEF Mirror, AheadBy
<1>5. x /= b => 2 * d /= n
    BY <1>1, <1>3 DEF Mirror, AheadBy
<1>6. x /= b => (FirstOf(a, x, n) <=> ~FirstOf(a, b, n))
    <2> SUFFICES ASSUME x /= b
                 PROVE  FirstOf(a, x, n) <=> ~FirstOf(a, b, n)
        OBVIOUS
    <2>1. 2 * d /= n
        BY <1>5
    <2>2. 2 * (n - d) /= n /\ (2 * (n - d) < n <=> ~(2 * d < n))
        BY <1>4, <2>1
    <2> QED BY <1>3, <1>4, <2>1, <2>2 DEF FirstOf
<1>7. ASSUME NEW c \in Nat, x /= b
      PROVE  Leads(a, x, n, c) <=> ~Leads(a, b, n, c)
    BY <1>6, <1>7, Zenon DEF Leads
<1>8. ASSUME NEW y \in 1..n, y /= a, Mirror(a, b, n) = b, Mirror(a, y, n) = y
      PROVE  y = b
    BY <1>8 DEF Mirror
<1> QED BY <1>1, <1>2, <1>7, <1>8

-----------------------------------------------------------------------------
(* Schedules: the matches of a round, and of all rounds *)

MatchRecords == [round: Nat, table: Nat, game: Nat, profile: Nat, one: Nat, two: Nat]

\* The g-th game at a table.
MatchAt(round, t, g, base, profile) ==
    [round |-> round, table |-> t, game |-> g, profile |-> profile,
     one |-> IF g % 2 = 1 THEN base[1] ELSE base[2],
     two |-> IF g % 2 = 1 THEN base[2] ELSE base[1]]

\* The matches of a round lie table by table.
LaidOut(ms, round, bases, profiles, T, G) ==
    /\ ms \in Seq(MatchRecords) /\ Len(ms) = T * G
    /\ \A t \in 1..T, g \in 1..G : ms[Place(t, g, G)] = MatchAt(round, t, g, bases[t], profiles[t])

\* add_round lists the games of a round table by table.
LEMMA RoundIsLaidOut ==
    ASSUME NEW T \in Nat, NEW G \in Nat \ {0}, NEW round \in Nat, NEW bases, DOMAIN bases = 1..T, NEW profiles,
           \A t \in 1..T : bases[t][1] \in Nat /\ bases[t][2] \in Nat /\ profiles[t] \in Nat
    PROVE  LaidOut(add_round(round, bases, profiles, G), round, bases, profiles, T, G)
<1>1. PICK ss : ss = [t \in 1..T |-> add_series(round, t, bases[t], profiles[t], G)]
    OBVIOUS
<1>2. add_round(round, bases, profiles, G) = FlattenSeq(ss)
    BY <1>1, Zenon DEF add_round
<1>3. ASSUME NEW t \in 1..T
      PROVE  ss[t] = [g \in 1..G |-> MatchAt(round, t, g, bases[t], profiles[t])]
    BY <1>1, Zenon DEF add_series, MatchAt
<1>4. ASSUME NEW t \in 1..T, NEW g \in 1..G
      PROVE  MatchAt(round, t, g, bases[t], profiles[t]) \in MatchRecords
    BY DEF MatchAt, MatchRecords
<1>5. ASSUME NEW t \in 1..T
      PROVE  ss[t] \in Seq(MatchRecords) /\ Len(ss[t]) = G
    <2>1. ss[t] = [g \in 1..G |-> ss[t][g]]
        BY <1>3
    <2>2. \A g \in 1..G : ss[t][g] \in MatchRecords
        BY <1>3, <1>4
    <2> QED BY <2>1, <2>2
<1>6. ss \in [1..T -> Seq(MatchRecords)]
    BY <1>1, <1>5
<1>7. FlatTo(FlattenSeq(ss), ss, T, G, MatchRecords)
    BY <1>5, <1>6, FlattenFacts
<1>8. ASSUME NEW t \in 1..T, NEW g \in 1..G
      PROVE  ss[t][g] = MatchAt(round, t, g, bases[t], profiles[t])
    BY <1>3
<1> QED BY <1>2, <1>7, <1>8, Zenon DEF FlatTo, LaidOut

\* A positive number of tables and games make a positive number of matches.
LEMMA TimesPositive ==
    ASSUME NEW a \in Nat \ {0}, NEW b \in Nat \ {0}
    PROVE  a * b \in Nat \ {0}
<1>1. a * b \in Nat /\ 1 * b = b /\ 1 * b <= a * b
    BY TimesFacts, TimesGrows
<1> QED BY <1>1

\* Where a static schedule has the g-th game of table t in round r of cycle c.
StaticPlace(M, T, G, c, r, t, g) == Place(Place(c + 1, r, M), Place(t, g, G), T * G)

StaticPlaces(C, M, T, G, N) ==
    /\ \A c \in 0..C - 1, r \in 1..M, t \in 1..T, g \in 1..G : StaticPlace(M, T, G, c, r, t, g) \in 1..N
    /\ \A i \in 1..N : \E c \in 0..C - 1, r \in 1..M, t \in 1..T, g \in 1..G : i = StaticPlace(M, T, G, c, r, t, g)
    /\ \A c, d \in 0..C - 1, r, q \in 1..M, t, u \in 1..T, g, k \in 1..G :
          StaticPlace(M, T, G, c, r, t, g) = StaticPlace(M, T, G, d, q, u, k) => c = d /\ r = q /\ t = u /\ g = k

\* A match of a static schedule has its place, and every place its match.
LEMMA StaticPlaceFacts ==
    ASSUME NEW C \in Nat, NEW M \in Nat \ {0}, NEW T \in Nat \ {0}, NEW G \in Nat \ {0},
           NEW N, N = (C * M) * (T * G)
    PROVE  N \in Nat /\ StaticPlaces(C, M, T, G, N)
<1>1. PICK K, W : K = C * M /\ W = T * G
    OBVIOUS
<1>2. K \in Nat /\ W \in Nat \ {0} /\ N = K * W /\ N \in Nat
    <2>1. C * M \in Nat
        BY TimesFacts
    <2>2. T * G \in Nat \ {0}
        BY TimesPositive
    <2>3. K * W \in Nat
        BY <1>1, <2>1, <2>2, TimesFacts
    <2> QED BY <1>1, <2>1, <2>2, <2>3
<1>3. /\ \A c \in 1..C, r \in 1..M : Place(c, r, M) \in 1..K
      /\ \A k \in 1..K : \E c \in 1..C, r \in 1..M : k = Place(c, r, M)
      /\ \A c, d \in 1..C, r, q \in 1..M : Place(c, r, M) = Place(d, q, M) => c = d /\ r = q
    BY <1>1, PlaceFacts, Zenon
<1>4. /\ \A t \in 1..T, g \in 1..G : Place(t, g, G) \in 1..W
      /\ \A j \in 1..W : \E t \in 1..T, g \in 1..G : j = Place(t, g, G)
      /\ \A t, u \in 1..T, g, k \in 1..G : Place(t, g, G) = Place(u, k, G) => t = u /\ g = k
    <2>1. T \in Nat
        OBVIOUS
    <2> QED BY <1>1, <2>1, PlaceFacts, Zenon
<1>5. /\ \A k \in 1..K, j \in 1..W : Place(k, j, W) \in 1..N
      /\ \A i \in 1..N : \E k \in 1..K, j \in 1..W : i = Place(k, j, W)
      /\ \A k, l \in 1..K, j, o \in 1..W : Place(k, j, W) = Place(l, o, W) => k = l /\ j = o
    <2>1. K \in Nat /\ W \in Nat \ {0}
        BY <1>2
    <2>2. /\ \A k \in 1..K, j \in 1..W : Place(k, j, W) \in 1..K * W
          /\ \A i \in 1..K * W : \E k \in 1..K, j \in 1..W : i = Place(k, j, W)
          /\ \A k, l \in 1..K, j, o \in 1..W : Place(k, j, W) = Place(l, o, W) => k = l /\ j = o
        BY <2>1, PlaceFacts, Zenon
    <2>3. 1..N = 1..K * W
        BY <1>2
    <2> QED BY <2>2, <2>3, Zenon
<1>6. \A c \in 0..C - 1 : c + 1 \in 1..C /\ (c + 1) - 1 = c
    OBVIOUS
<1>7. ASSUME NEW c \in 0..C - 1, NEW r \in 1..M, NEW t \in 1..T, NEW g \in 1..G
      PROVE  /\ StaticPlace(M, T, G, c, r, t, g) = Place(Place(c + 1, r, M), Place(t, g, G), W)
             /\ Place(c + 1, r, M) \in 1..K /\ Place(t, g, G) \in 1..W
    BY <1>1, <1>3, <1>4, <1>6 DEF StaticPlace
<1>8. ASSUME NEW c \in 0..C - 1, NEW r \in 1..M, NEW t \in 1..T, NEW g \in 1..G
      PROVE  StaticPlace(M, T, G, c, r, t, g) \in 1..N
    <2>1. PICK k \in 1..K, j \in 1..W : k = Place(c + 1, r, M) /\ j = Place(t, g, G)
        BY <1>7
    <2>2. Place(k, j, W) \in 1..N
        BY <1>5, Zenon
    <2> QED BY <1>7, <2>1, <2>2
<1>9. ASSUME NEW i \in 1..N
      PROVE  \E c \in 0..C - 1, r \in 1..M, t \in 1..T, g \in 1..G : i = StaticPlace(M, T, G, c, r, t, g)
    <2>1. PICK k \in 1..K, j \in 1..W : i = Place(k, j, W)
        BY <1>5
    <2>2. PICK d \in 1..C, r \in 1..M : k = Place(d, r, M)
        BY <1>3
    <2>3. PICK t \in 1..T, g \in 1..G : j = Place(t, g, G)
        BY <1>4
    <2>4. PICK c \in 0..C - 1 : c + 1 = d
        <3>1. d - 1 \in 0..C - 1 /\ (d - 1) + 1 = d
            OBVIOUS
        <3> QED BY <3>1
    <2>5. i = StaticPlace(M, T, G, c, r, t, g)
        BY <1>1, <2>1, <2>2, <2>3, <2>4, Zenon DEF StaticPlace
    <2> QED BY <2>5
<1>10. ASSUME NEW c \in 0..C - 1, NEW d \in 0..C - 1, NEW r \in 1..M, NEW q \in 1..M, NEW t \in 1..T, NEW u \in 1..T,
              NEW g \in 1..G, NEW k \in 1..G, StaticPlace(M, T, G, c, r, t, g) = StaticPlace(M, T, G, d, q, u, k)
       PROVE  c = d /\ r = q /\ t = u /\ g = k
    <2>1. Place(c + 1, r, M) = Place(d + 1, q, M) /\ Place(t, g, G) = Place(u, k, G)
        <3>1. PICK x \in 1..K, j \in 1..W : x = Place(c + 1, r, M) /\ j = Place(t, g, G)
            BY <1>7
        <3>2. PICK y \in 1..K, o \in 1..W : y = Place(d + 1, q, M) /\ o = Place(u, k, G)
            BY <1>7
        <3>3. Place(x, j, W) = Place(y, o, W)
            BY <1>7, <1>10, <3>1, <3>2
        <3>4. x = y /\ j = o
            BY <1>5, <3>3, Zenon
        <3> QED BY <3>1, <3>2, <3>4
    <2>2. t = u /\ g = k
        <3>1. \A x, y \in 1..T, v, w \in 1..G : Place(x, v, G) = Place(y, w, G) => x = y /\ v = w
            BY <1>4
        <3> QED BY <2>1, <3>1
    <2>3. PICK x \in 1..C, y \in 1..C : x = c + 1 /\ y = d + 1
        BY <1>6
    <2>4. x = y /\ r = q
        <3>1. Place(x, r, M) = Place(y, q, M)
            BY <2>1, <2>3
        <3> QED BY <1>3, <3>1, Zenon
    <2> QED BY <2>2, <2>3, <2>4
<1> QED BY <1>2, <1>8, <1>9, <1>10, Zenon DEF StaticPlaces

\* A static schedule has every game of every table of every round of every
\* cycle in its place.
StaticMatch(s, M, c, r, t, g) ==
    MatchAt(Place(c + 1, r, M), t, g, OrientPair(PairAt(s.n, r, t), s.n, c),
            static_profile(OrientPair(PairAt(s.n, r, t), s.n, c), s.n, c, s.profiles))

StaticLaidOut(ms, s, M, T) ==
    /\ ms \in Seq(MatchRecords) /\ Len(ms) = (s.cycles * M) * (T * s.games)
    /\ \A c \in 0..s.cycles - 1, r \in 1..M, t \in 1..T, g \in 1..s.games :
          ms[StaticPlace(M, T, s.games, c, r, t, g)] = StaticMatch(s, M, c, r, t, g)

StaticMatches(s) == FlattenSeq([k \in 1..Len(StaticRounds(s)) |-> StaticRounds(s)[k].matches])

\* What the proofs about static formats need of a specification.
StaticSpecOK(s) ==
    /\ s.n \in Nat /\ s.n >= 2 /\ s.cycles \in Nat
    /\ s.games \in Nat \ {0} /\ s.profiles \in Nat \ {0}

\* A round of a cycle.
BasesOf(s, r, c) == [t \in DOMAIN circle_rounds(s.n)[r].pairs |-> OrientPair(circle_rounds(s.n)[r].pairs[t], s.n, c)]
ProfilesOf(s, r, c) ==
    [t \in DOMAIN BasesOf(s, r, c) |-> static_profile(BasesOf(s, r, c)[t], s.n, c, s.profiles)]
RoundAt(s, k, r, c) ==
    [matches |-> add_round(k, BasesOf(s, r, c), ProfilesOf(s, r, c), s.games), bye |-> circle_rounds(s.n)[r].bye]

\* The rounds of a static schedule are those of the circle, cycle by cycle.
LEMMA StaticRoundsFacts ==
    ASSUME NEW s, StaticSpecOK(s), NEW M \in Nat \ {0}, Len(circle_rounds(s.n)) = M
    PROVE  /\ DOMAIN StaticRounds(s) = 1..s.cycles * M /\ Len(StaticRounds(s)) = s.cycles * M
           /\ \A c \in 0..s.cycles - 1, r \in 1..M :
                 StaticRounds(s)[Place(c + 1, r, M)] = RoundAt(s, Place(c + 1, r, M), r, c)
<1>1. StaticRounds(s) = [k \in 1..s.cycles * Len(circle_rounds(s.n)) |->
                           RoundAt(s, k, ((k - 1) % Len(circle_rounds(s.n))) + 1, (k - 1) \div Len(circle_rounds(s.n)))]
    BY Zenon DEF StaticRounds, RoundAt, BasesOf, ProfilesOf
<1>2. StaticRounds(s) = [k \in 1..s.cycles * M |-> RoundAt(s, k, ((k - 1) % M) + 1, (k - 1) \div M)]
    BY <1>1, Zenon
<1>3. s.cycles \in Nat /\ s.cycles * M \in Nat /\ M \in Nat
    BY TimesFacts DEF StaticSpecOK
<1>4. ASSUME NEW c \in 0..s.cycles - 1, NEW r \in 1..M
      PROVE  StaticRounds(s)[Place(c + 1, r, M)] = RoundAt(s, Place(c + 1, r, M), r, c)
    <2>1. PICK k : k = Place(c + 1, r, M)
        OBVIOUS
    <2>2. c + 1 \in 1..s.cycles /\ c \in Nat
        BY <1>3
    <2>3. k \in 1..s.cycles * M
        BY <1>3, <2>1, <2>2, PlaceFacts
    <2>4. (k - 1) \div M = c /\ ((k - 1) % M) + 1 = r
        BY <2>1, <2>2, CycleAndRound
    <2>5. StaticRounds(s)[k] = RoundAt(s, k, ((k - 1) % M) + 1, (k - 1) \div M)
        BY <1>2, <2>3, Zenon
    <2> QED BY <2>1, <2>4, <2>5
<1>5. DOMAIN StaticRounds(s) = 1..s.cycles * M
    BY <1>2, Zenon
<1>6. Len(StaticRounds(s)) = s.cycles * M
    <2>1. PICK R, K : R = StaticRounds(s) /\ K = s.cycles * M
        OBVIOUS
    <2>2. K \in Nat /\ R = [k \in 1..K |-> R[k]]
        BY <1>2, <1>3, <2>1
    <2>3. Len(R) = K
        BY <2>2
    <2> QED BY <2>1, <2>3
<1> QED BY <1>4, <1>5, <1>6

\* A profile of a series is one of the specification's.
LEMMA StaticProfileFacts ==
    ASSUME NEW a \in Nat, NEW b \in Nat, NEW n \in Nat, NEW c \in Nat, NEW k \in Nat \ {0}, NEW p, p[1] = a, p[2] = b
    PROVE  static_profile(p, n, c, k) \in 0..k - 1
<1>1. PICK d : d = AbsDiff(p[1], p[2])
    OBVIOUS
<1>2. d \in Int
    BY <1>1 DEF AbsDiff
<1>3. PICK x : x = Min({d, n - d})
    OBVIOUS
<1>4. x \in Int
    BY <1>2, <1>3, MinOfTwo
<1>5. static_profile(p, n, c, k) = (x - 1 + c) % k
    BY <1>1, <1>3, Zenon DEF static_profile
<1>6. x - 1 + c \in Int
    BY <1>4
<1> QED BY <1>5, <1>6

\* The two of a series and its profile.
SeriesIsFair(base, s, c, r, t) ==
    /\ base[1] \in 1..s.n /\ base[2] \in 1..s.n /\ base[1] /= base[2]
    /\ {base[1], base[2]} = MeetAt(s.n, r, t)
    /\ \A a, b \in 1..s.n : MeetAt(s.n, r, t) = {a, b} /\ a /= b =>
          base = IF Leads(a, b, s.n, c) THEN <<a, b>> ELSE <<b, a>>
    /\ static_profile(base, s.n, c, s.profiles) \in 0..s.profiles - 1

\* The series of a static schedule has two entrants and a profile in range.
LEMMA StaticSeriesFacts ==
    ASSUME NEW s, StaticSpecOK(s), NEW M \in Nat, M = (s.n + (s.n % 2)) - 1,
           NEW c \in Nat, NEW r \in 1..M, NEW t \in 1..s.n \div 2,
           NEW base, base = OrientPair(PairAt(s.n, r, t), s.n, c)
    PROVE  SeriesIsFair(base, s, c, r, t)
<1>1. s.n \in Nat /\ s.n >= 2 /\ s.profiles \in Nat \ {0}
    BY DEF StaticSpecOK
<1>2. CircleIsFair(s.n, M, s.n \div 2)
    BY <1>1, CircleFacts
<1>3. PICK x, y : x = PairAt(s.n, r, t)[1] /\ y = PairAt(s.n, r, t)[2]
    OBVIOUS
<1>4. PairAt(s.n, r, t) = <<x, y>> /\ x \in 1..s.n /\ y \in 1..s.n /\ x /= y /\ MeetAt(s.n, r, t) = {x, y}
    BY <1>2, <1>3 DEF CircleIsFair, MeetAt
<1>5. base = IF Leads(x, y, s.n, c) THEN <<x, y>> ELSE <<y, x>>
    BY <1>1, <1>4, OrientFacts
<1>6. (base = <<x, y>> /\ base[1] = x /\ base[2] = y) \/ (base = <<y, x>> /\ base[1] = y /\ base[2] = x)
    BY <1>5
<1>7. ASSUME NEW a \in 1..s.n, NEW b \in 1..s.n, MeetAt(s.n, r, t) = {a, b}, a /= b
      PROVE  base = IF Leads(a, b, s.n, c) THEN <<a, b>> ELSE <<b, a>>
    <2>1. (a = x /\ b = y) \/ (a = y /\ b = x)
        BY <1>4, <1>7
    <2>2. Leads(y, x, s.n, c) <=> ~Leads(x, y, s.n, c)
        BY <1>1, <1>4, LeadsFacts
    <2> QED BY <1>5, <2>1, <2>2, Zenon
<1>8. static_profile(base, s.n, c, s.profiles) \in 0..s.profiles - 1
    <2>1. base[1] \in Nat /\ base[2] \in Nat
        BY <1>4, <1>6
    <2> QED BY <1>1, <2>1, StaticProfileFacts
<1>9. base[1] \in 1..s.n /\ base[2] \in 1..s.n /\ base[1] /= base[2] /\ {base[1], base[2]} = MeetAt(s.n, r, t)
    BY <1>4, <1>6
<1> QED BY <1>7, <1>8, <1>9, Zenon DEF SeriesIsFair

\* The matches of a static schedule, each at its place.
LEMMA StaticIsLaidOut ==
    ASSUME NEW s, StaticSpecOK(s), NEW M \in Nat \ {0}, M = (s.n + (s.n % 2)) - 1, NEW T \in Nat \ {0}, T = s.n \div 2
    PROVE  StaticLaidOut(StaticMatches(s), s, M, T)
<1>1. s.n \in Nat /\ s.n >= 2 /\ s.cycles \in Nat /\ s.games \in Nat \ {0} /\ s.profiles \in Nat \ {0}
    BY DEF StaticSpecOK
<1>2. DOMAIN circle_rounds(s.n) = 1..M /\ CircleIsFair(s.n, M, T)
    BY <1>1, CircleFacts
<1>3. Len(circle_rounds(s.n)) = M
    <2>1. PICK R : R = circle_rounds(s.n)
        OBVIOUS
    <2>2. R = [r \in 1..M |-> R[r]]
        BY <1>2, <2>1 DEF circle_rounds
    <2> QED BY <2>1, <2>2
<1>4. PICK K, W : K = s.cycles * M /\ W = T * s.games
    OBVIOUS
<1>5. K \in Nat /\ W \in Nat \ {0}
    <2>1. s.cycles * M \in Nat
        BY <1>1, TimesFacts
    <2>2. T * s.games \in Nat \ {0}
        BY <1>1, TimesPositive
    <2> QED BY <1>4, <2>1, <2>2
<1>6. /\ Len(StaticRounds(s)) = K
      /\ \A c \in 0..s.cycles - 1, r \in 1..M :
            StaticRounds(s)[Place(c + 1, r, M)] = RoundAt(s, Place(c + 1, r, M), r, c)
    BY <1>3, <1>4, StaticRoundsFacts
<1>7. PICK ss : ss = [k \in 1..K |-> StaticRounds(s)[k].matches]
    OBVIOUS
<1>8. StaticMatches(s) = FlattenSeq(ss)
    BY <1>6, <1>7, Zenon DEF StaticMatches
<1>9. ASSUME NEW c \in 0..s.cycles - 1, NEW r \in 1..M
      PROVE  /\ Place(c + 1, r, M) \in 1..K
             /\ LaidOut(ss[Place(c + 1, r, M)], Place(c + 1, r, M), BasesOf(s, r, c), ProfilesOf(s, r, c), T, s.games)
             /\ \A t \in 1..T : /\ BasesOf(s, r, c)[t] = OrientPair(PairAt(s.n, r, t), s.n, c)
                                /\ ProfilesOf(s, r, c)[t]
                                    = static_profile(OrientPair(PairAt(s.n, r, t), s.n, c), s.n, c, s.profiles)
    <2>1. PICK k : k = Place(c + 1, r, M)
        OBVIOUS
    <2>2. c + 1 \in 1..s.cycles /\ c \in Nat
        BY <1>1
    <2>3. k \in 1..K /\ k \in Nat
        <3>1. Place(c + 1, r, M) \in 1..s.cycles * M
            BY <1>1, <2>2, PlaceFacts
        <3> QED BY <1>4, <1>5, <2>1, <3>1
    <2>4. DOMAIN BasesOf(s, r, c) = 1..T /\ \A t \in 1..T : BasesOf(s, r, c)[t] = OrientPair(PairAt(s.n, r, t), s.n, c)
        <3>1. DOMAIN circle_rounds(s.n)[r].pairs = 1..T
            BY <1>2 DEF CircleIsFair
        <3> QED BY <3>1, Zenon DEF BasesOf, PairAt
    <2>5. \A t \in 1..T : ProfilesOf(s, r, c)[t] = static_profile(OrientPair(PairAt(s.n, r, t), s.n, c), s.n, c, s.profiles)
        BY <2>4, Zenon DEF ProfilesOf
    <2>6. ASSUME NEW t \in 1..T
          PROVE  BasesOf(s, r, c)[t][1] \in Nat /\ BasesOf(s, r, c)[t][2] \in Nat /\ ProfilesOf(s, r, c)[t] \in Nat
        <3>1. PICK base : base = OrientPair(PairAt(s.n, r, t), s.n, c)
            OBVIOUS
        <3>2. base[1] \in 1..s.n /\ base[2] \in 1..s.n /\ static_profile(base, s.n, c, s.profiles) \in 0..s.profiles - 1
            BY <2>2, <3>1, StaticSeriesFacts DEF SeriesIsFair
        <3>3. base[1] \in Nat /\ base[2] \in Nat /\ static_profile(base, s.n, c, s.profiles) \in Nat
            BY <1>1, <3>2
        <3> QED BY <2>4, <2>5, <3>1, <3>3, Zenon
    <2>7. LaidOut(add_round(k, BasesOf(s, r, c), ProfilesOf(s, r, c), s.games), k, BasesOf(s, r, c), ProfilesOf(s, r, c),
                  T, s.games)
        BY <1>1, <2>3, <2>4, <2>6, RoundIsLaidOut
    <2>8. ss[k] = add_round(k, BasesOf(s, r, c), ProfilesOf(s, r, c), s.games)
        <3>1. ss[k] = StaticRounds(s)[k].matches /\ StaticRounds(s)[k] = RoundAt(s, k, r, c)
            BY <1>6, <1>7, <2>1, <2>3
        <3> QED BY <3>1 DEF RoundAt
    <2> QED BY <2>1, <2>3, <2>4, <2>5, <2>7, <2>8, Zenon
<1>10. ASSUME NEW k \in 1..K
       PROVE  ss[k] \in Seq(MatchRecords) /\ Len(ss[k]) = W
    <2>1. PICK d \in 1..s.cycles, r \in 1..M : k = Place(d, r, M)
        <3>1. PICK C \in Nat : C = s.cycles
            BY <1>1
        <3>2. \A i \in 1..C * M : \E d \in 1..C, r \in 1..M : i = Place(d, r, M)
            BY PlaceFacts, Zenon
        <3> QED BY <1>4, <3>1, <3>2
    <2>2. d - 1 \in 0..s.cycles - 1 /\ (d - 1) + 1 = d
        BY <1>1
    <2>3. LaidOut(ss[k], k, BasesOf(s, r, d - 1), ProfilesOf(s, r, d - 1), T, s.games)
        BY <1>9, <2>1, <2>2
    <2> QED BY <1>4, <2>3 DEF LaidOut
<1>11. FlatTo(FlattenSeq(ss), ss, K, W, MatchRecords)
    <2>1. ss \in [1..K -> Seq(MatchRecords)]
        BY <1>7, <1>10
    <2> QED BY <1>5, <1>10, <2>1, FlattenFacts
<1>12. ASSUME NEW c \in 0..s.cycles - 1, NEW r \in 1..M, NEW t \in 1..T, NEW g \in 1..s.games
       PROVE  FlattenSeq(ss)[StaticPlace(M, T, s.games, c, r, t, g)] = StaticMatch(s, M, c, r, t, g)
    <2>1. PICK k, j : k = Place(c + 1, r, M) /\ j = Place(t, g, s.games)
        OBVIOUS
    <2>2. k \in 1..K
        BY <1>9, <2>1
    <2>3. j \in 1..W
        <3>1. PICK G \in Nat \ {0} : G = s.games
            BY <1>1
        <3>2. PICK U \in Nat : U = T
            OBVIOUS
        <3>3. \A i \in 1..U, e \in 1..G : Place(i, e, G) \in 1..U * G
            BY PlaceFacts, Zenon
        <3> QED BY <1>4, <2>1, <3>1, <3>2, <3>3
    <2>4. FlattenSeq(ss)[Place(k, j, W)] = ss[k][j]
        BY <1>11, <2>2, <2>3, Zenon DEF FlatTo
    <2>5. ss[k][j] = MatchAt(k, t, g, BasesOf(s, r, c)[t], ProfilesOf(s, r, c)[t])
        BY <1>9, <2>1, ZenonT(60) DEF LaidOut
    <2>6. StaticPlace(M, T, s.games, c, r, t, g) = Place(k, j, W)
        BY <1>4, <2>1, Zenon DEF StaticPlace
    <2> QED BY <1>9, <2>1, <2>4, <2>5, <2>6, Zenon DEF StaticMatch
<1>13. FlattenSeq(ss) \in Seq(MatchRecords) /\ Len(FlattenSeq(ss)) = (s.cycles * M) * (T * s.games)
    BY <1>4, <1>11 DEF FlatTo
<1>14. StaticLaidOut(FlattenSeq(ss), s, M, T)
    BY <1>12, <1>13, Zenon DEF StaticLaidOut
<1> QED BY <1>8, <1>14

-----------------------------------------------------------------------------
(* Schedules: static formats *)

\* Sets whose elements correspond have as many.
LEMMA SameCount ==
    ASSUME NEW S, NEW R, IsFiniteSet(S), NEW f \in [S -> R],
           \A x, y \in S : f[x] = f[y] => x = y, \A z \in R : \E x \in S : f[x] = z
    PROVE  IsFiniteSet(R) /\ Cardinality(R) = Cardinality(S)
<1>1. f \in Bijection(S, R)
    BY Zenon DEF Bijection, Injection, Surjection, IsInjective
<1>2. ExistsBijection(S, R)
    BY <1>1, Zenon DEF ExistsBijection
<1> QED BY <1>2, FS_Bijection

\* What a match of a static schedule says.
MatchIsFair(x, s, M, c, r, t, g) ==
    /\ x.round = Place(c + 1, r, M) /\ x.table = t /\ x.game = g /\ x.profile \in 0..s.profiles - 1
    /\ x.one \in 1..s.n /\ x.two \in 1..s.n /\ x.one /= x.two /\ {x.one, x.two} = MeetAt(s.n, r, t)
    /\ \A a, b \in 1..s.n : MeetAt(s.n, r, t) = {a, b} /\ a /= b =>
          /\ x.one = a <=> (Leads(a, b, s.n, c) <=> g % 2 = 1)
          /\ x.two = a <=> ~(Leads(a, b, s.n, c) <=> g % 2 = 1)

\* What a match of a static schedule says.
LEMMA StaticMatchFacts ==
    ASSUME NEW s, StaticSpecOK(s), NEW M \in Nat, M = (s.n + (s.n % 2)) - 1,
           NEW c \in Nat, NEW r \in 1..M, NEW t \in 1..s.n \div 2, NEW g \in 1..s.games,
           NEW x, x = StaticMatch(s, M, c, r, t, g)
    PROVE  MatchIsFair(x, s, M, c, r, t, g)
<1>1. PICK base : base = OrientPair(PairAt(s.n, r, t), s.n, c)
    OBVIOUS
<1>2. /\ base[1] \in 1..s.n /\ base[2] \in 1..s.n /\ base[1] /= base[2]
      /\ {base[1], base[2]} = MeetAt(s.n, r, t)
      /\ \A a, b \in 1..s.n : MeetAt(s.n, r, t) = {a, b} /\ a /= b =>
            base = IF Leads(a, b, s.n, c) THEN <<a, b>> ELSE <<b, a>>
      /\ static_profile(base, s.n, c, s.profiles) \in 0..s.profiles - 1
    <2>1. SeriesIsFair(base, s, c, r, t)
        BY <1>1, StaticSeriesFacts
    <2> QED BY <2>1, Zenon DEF SeriesIsFair
<1>3. x = MatchAt(Place(c + 1, r, M), t, g, base, static_profile(base, s.n, c, s.profiles))
    BY <1>1, Zenon DEF StaticMatch
<1>4. /\ x.round = Place(c + 1, r, M) /\ x.table = t /\ x.game = g
      /\ x.profile = static_profile(base, s.n, c, s.profiles)
      /\ x.one = IF g % 2 = 1 THEN base[1] ELSE base[2]
      /\ x.two = IF g % 2 = 1 THEN base[2] ELSE base[1]
    BY <1>3 DEF MatchAt
<1>5. x.one \in 1..s.n /\ x.two \in 1..s.n /\ x.one /= x.two /\ {x.one, x.two} = MeetAt(s.n, r, t)
    BY <1>2, <1>4
<1>6. ASSUME NEW a \in 1..s.n, NEW b \in 1..s.n, MeetAt(s.n, r, t) = {a, b}, a /= b
      PROVE  /\ x.one = a <=> (Leads(a, b, s.n, c) <=> g % 2 = 1)
             /\ x.two = a <=> ~(Leads(a, b, s.n, c) <=> g % 2 = 1)
    <2>1. base = IF Leads(a, b, s.n, c) THEN <<a, b>> ELSE <<b, a>>
        BY <1>2, <1>6, Zenon
    <2>2. CASE Leads(a, b, s.n, c)
        <3>1. base[1] = a /\ base[2] = b
            BY <2>1, <2>2
        <3> QED BY <1>4, <1>6, <2>2, <3>1
    <2>3. CASE ~Leads(a, b, s.n, c)
        <3>1. base[1] = b /\ base[2] = a
            BY <2>1, <2>3
        <3> QED BY <1>4, <1>6, <2>3, <3>1
    <2> QED BY <2>2, <2>3
<1>7. x.profile \in 0..s.profiles - 1
    BY <1>2, <1>4
<1> QED BY <1>4, <1>5, <1>6, <1>7, Zenon DEF MatchIsFair

StaticByes(s) ==
    { b \in [round: DOMAIN StaticRounds(s), entrant: Entrants(s.n)] : b.entrant \in StaticRounds(s)[b.round].bye }

\* Who rests when.
LEMMA StaticByeFacts ==
    ASSUME NEW s, StaticSpecOK(s), NEW M \in Nat \ {0}, M = (s.n + (s.n % 2)) - 1
    PROVE  /\ \A c \in 0..s.cycles - 1, r \in 1..M : \A e \in RestAt(s.n, r) :
                 [round |-> Place(c + 1, r, M), entrant |-> e] \in StaticByes(s)
           /\ \A b \in StaticByes(s) : \E c \in 0..s.cycles - 1, r \in 1..M : \E e \in RestAt(s.n, r) :
                 b = [round |-> Place(c + 1, r, M), entrant |-> e]
<1>1. s.n \in Nat /\ s.n >= 2 /\ s.cycles \in Nat
    BY DEF StaticSpecOK
<1>2. DOMAIN circle_rounds(s.n) = 1..M /\ CircleIsFair(s.n, M, s.n \div 2)
    BY <1>1, CircleFacts
<1>3. Len(circle_rounds(s.n)) = M
    <2>1. PICK R : R = circle_rounds(s.n)
        OBVIOUS
    <2>2. R = [r \in 1..M |-> R[r]]
        BY <1>2, <2>1 DEF circle_rounds
    <2> QED BY <2>1, <2>2
<1>4. PICK C \in Nat : C = s.cycles
    BY <1>1
<1>5. /\ DOMAIN StaticRounds(s) = 1..C * M
      /\ \A c \in 0..C - 1, r \in 1..M :
            StaticRounds(s)[Place(c + 1, r, M)] = RoundAt(s, Place(c + 1, r, M), r, c)
    BY <1>3, <1>4, StaticRoundsFacts
<1>6. /\ \A d \in 1..C, r \in 1..M : Place(d, r, M) \in 1..C * M
      /\ \A i \in 1..C * M : \E d \in 1..C, r \in 1..M : i = Place(d, r, M)
    BY PlaceFacts, Zenon
<1>7. ASSUME NEW c \in 0..C - 1, NEW r \in 1..M
      PROVE  Place(c + 1, r, M) \in 1..C * M /\ StaticRounds(s)[Place(c + 1, r, M)].bye = RestAt(s.n, r)
    <2>1. c + 1 \in 1..C
        OBVIOUS
    <2>2. StaticRounds(s)[Place(c + 1, r, M)] = RoundAt(s, Place(c + 1, r, M), r, c)
        BY <1>5
    <2> QED BY <1>6, <2>1, <2>2 DEF RoundAt, RestAt
<1>8. ASSUME NEW c \in 0..C - 1, NEW r \in 1..M, NEW e \in RestAt(s.n, r)
      PROVE  [round |-> Place(c + 1, r, M), entrant |-> e] \in StaticByes(s)
    <2>1. e \in Entrants(s.n)
        BY <1>2 DEF CircleIsFair, Entrants
    <2> QED BY <1>5, <1>7, <2>1 DEF StaticByes
<1>9. ASSUME NEW b \in StaticByes(s)
      PROVE  \E c \in 0..C - 1, r \in 1..M : \E e \in RestAt(s.n, r) :
                 b = [round |-> Place(c + 1, r, M), entrant |-> e]
    <2>1. b \in [round: 1..C * M, entrant: Entrants(s.n)] /\ b.entrant \in StaticRounds(s)[b.round].bye
        BY <1>5 DEF StaticByes
    <2>2. PICK d \in 1..C, r \in 1..M : b.round = Place(d, r, M)
        BY <1>6, <2>1
    <2>3. PICK c \in 0..C - 1 : c + 1 = d
        <3>1. d - 1 \in 0..C - 1 /\ (d - 1) + 1 = d
            OBVIOUS
        <3> QED BY <3>1
    <2>4. b.entrant \in RestAt(s.n, r)
        BY <1>7, <2>1, <2>2, <2>3
    <2>5. b = [round |-> Place(c + 1, r, M), entrant |-> b.entrant]
        BY <2>1, <2>2, <2>3
    <2> QED BY <2>4, <2>5
<1> QED BY <1>4, <1>8, <1>9

\* A set that a matching of all but one element splits is split evenly.
SplitsEvenly(X, Y) ==
    /\ IsFiniteSet(X) /\ IsFiniteSet(Y) /\ IsFiniteSet(X \ Y)
    /\ Cardinality(Y) \in Nat /\ Cardinality(X \ Y) \in Nat
    /\ Cardinality(Y) <= Cardinality(X \ Y) + 1 /\ Cardinality(X \ Y) <= Cardinality(Y) + 1

\* A set that an involution maps across, but for one point, is split evenly.
LEMMA EvenSplit ==
    ASSUME NEW X, IsFiniteSet(X), NEW Y, Y \subseteq X, NEW F \in [X -> X], \A x \in X : F[F[x]] = x,
           \A x \in X : F[x] /= x => (F[x] \in Y <=> x \notin Y),
           \A x, y \in X : F[x] = x /\ F[y] = y => x = y
    PROVE  SplitsEvenly(X, Y)
<1>1. PICK Z : Z = X \ Y
    OBVIOUS
<1>2. PICK Y0 : Y0 = { x \in Y : F[x] /= x }
    OBVIOUS
<1>3. PICK Z0 : Z0 = { x \in Z : F[x] /= x }
    OBVIOUS
<1>4. Y0 \in SUBSET X /\ Z0 \in SUBSET X /\ Y \in SUBSET X /\ Z \in SUBSET X
    BY <1>1, <1>2, <1>3
<1>5. IsFiniteSet(Y0) /\ IsFiniteSet(Z0) /\ IsFiniteSet(Y) /\ IsFiniteSet(Z)
    BY <1>4, FS_Subset
<1>6. Cardinality(Z0) = Cardinality(Y0)
    <2>1. PICK f : f = [x \in Y0 |-> F[x]]
        OBVIOUS
    <2>2. ASSUME NEW x \in Y0
          PROVE  F[x] \in Z0
        <3>1. x \in X /\ x \in Y /\ F[x] /= x /\ F[x] \in X
            BY <1>2
        <3>2. F[x] \in Z
            BY <1>1, <3>1
        <3>3. F[F[x]] /= F[x]
            BY <3>1
        <3> QED BY <1>3, <3>2, <3>3
    <2>3. f \in [Y0 -> Z0]
        BY <2>1, <2>2
    <2>4. \A x, y \in Y0 : f[x] = f[y] => x = y
        <3>1. \A x \in Y0 : f[x] = F[x] /\ F[F[x]] = x
            BY <1>4, <2>1
        <3> QED BY <3>1
    <2>5. ASSUME NEW z \in Z0
          PROVE  \E x \in Y0 : f[x] = z
        <3>1. z \in X /\ z \notin Y /\ F[z] /= z /\ F[z] \in X
            BY <1>1, <1>3
        <3>2. F[z] \in Y
            BY <3>1
        <3>3. F[F[z]] = z
            BY <3>1
        <3>4. F[z] \in Y0
            BY <1>2, <3>1, <3>2, <3>3
        <3> QED BY <2>1, <3>3, <3>4
    <2> QED BY <1>5, <2>3, <2>4, <2>5, SameCount
<1>7. ASSUME NEW S, NEW S0, S \subseteq X, S0 = { x \in S : F[x] /= x }, IsFiniteSet(S0), IsFiniteSet(S)
      PROVE  /\ Cardinality(S) \in Nat /\ Cardinality(S0) \in Nat
             /\ Cardinality(S0) <= Cardinality(S) /\ Cardinality(S) <= Cardinality(S0) + 1
    <2>1. Cardinality(S) \in Nat /\ Cardinality(S0) \in Nat
        BY <1>7, FS_CardinalityType
    <2>2. CASE S = S0
        BY <2>1, <2>2
    <2>3. CASE S /= S0
        <3>1. PICK x \in S : F[x] = x
            BY <1>7, <2>3
        <3>2. S = S0 \cup {x} /\ x \notin S0
            BY <1>7, <3>1
        <3>3. Cardinality(S) = Cardinality(S0) + 1
            BY <1>7, <3>2, FS_AddElement
        <3> QED BY <2>1, <3>3
    <2> QED BY <2>2, <2>3
<1>8. /\ Cardinality(Y) \in Nat /\ Cardinality(Y0) \in Nat
      /\ Cardinality(Y0) <= Cardinality(Y) /\ Cardinality(Y) <= Cardinality(Y0) + 1
    BY <1>2, <1>4, <1>5, <1>7
<1>9. /\ Cardinality(Z) \in Nat /\ Cardinality(Z0) \in Nat
      /\ Cardinality(Z0) <= Cardinality(Z) /\ Cardinality(Z) <= Cardinality(Z0) + 1
    BY <1>3, <1>4, <1>5, <1>7
<1> QED BY <1>1, <1>5, <1>6, <1>8, <1>9 DEF SplitsEvenly

\* The game, or cycle, that goes with one: odd games with the even ones behind
\* them, even cycles, from 0, with the odd ones behind them.
GameMate(g, G) == IF g % 2 = 0 THEN g - 1 ELSE IF g + 1 <= G THEN g + 1 ELSE g
CycleMate(c, C) == IF c % 2 = 1 THEN c - 1 ELSE IF c + 1 <= C - 1 THEN c + 1 ELSE c

\* Games and cycles come in twos, the last of an odd number alone.
LEMMA MateFacts ==
    ASSUME NEW G \in Nat, NEW C \in Nat
    PROVE  /\ \A g \in 1..G : /\ GameMate(g, G) \in 1..G /\ GameMate(GameMate(g, G), G) = g
                              /\ GameMate(g, G) /= g => (GameMate(g, G) % 2 = 1 <=> ~(g % 2 = 1))
                              /\ GameMate(g, G) = g => g = G
           /\ \A c \in 0..C - 1 : /\ CycleMate(c, C) \in 0..C - 1 /\ CycleMate(CycleMate(c, C), C) = c
                                  /\ CycleMate(c, C) /= c => CycleMate(c, C) = c + 1 \/ c = CycleMate(c, C) + 1
                                  /\ CycleMate(c, C) = c => c = C - 1
<1>1. ASSUME NEW g \in 1..G
      PROVE  /\ GameMate(g, G) \in 1..G /\ GameMate(GameMate(g, G), G) = g
             /\ GameMate(g, G) /= g => (GameMate(g, G) % 2 = 1 <=> ~(g % 2 = 1))
             /\ GameMate(g, G) = g => g = G
    BY DEF GameMate
<1>2. ASSUME NEW c \in 0..C - 1
      PROVE  /\ CycleMate(c, C) \in 0..C - 1 /\ CycleMate(CycleMate(c, C), C) = c
             /\ CycleMate(c, C) /= c => CycleMate(c, C) = c + 1 \/ c = CycleMate(c, C) + 1
             /\ CycleMate(c, C) = c => c = C - 1
    BY DEF CycleMate
<1> QED BY <1>1, <1>2

\* The games of a, by opponent, cycle and game, and those with the first seat.
GamesOf(a, n, C, G) == (1..n \ {a}) \X ((0..C - 1) \X (1..G))
FirstSeat(a, n, x) == Leads(a, x[1], n, x[2][1]) <=> x[2][2] % 2 = 1
MateOf(a, n, C, G, x) ==
    IF GameMate(x[2][2], G) /= x[2][2] THEN <<x[1], <<x[2][1], GameMate(x[2][2], G)>>>>
    ELSE IF CycleMate(x[2][1], C) /= x[2][1] THEN <<x[1], <<CycleMate(x[2][1], C), x[2][2]>>>>
    ELSE <<Mirror(a, x[1], n), x[2]>>

\* a has the first seat as often as the second, to within one.
LEMMA SeatsEvenOut ==
    ASSUME NEW n \in Nat, NEW a \in 1..n, NEW C \in Nat, NEW G \in Nat,
           NEW X, X = GamesOf(a, n, C, G), NEW Y, Y = { x \in X : FirstSeat(a, n, x) }
    PROVE  SplitsEvenly(X, Y)
<1>1. IsFiniteSet(X)
    <2>1. IsFiniteSet(1..n) /\ IsFiniteSet(0..C - 1) /\ IsFiniteSet(1..G)
        BY FS_Interval
    <2>2. IsFiniteSet(1..n \ {a})
        BY <2>1, FS_RemoveElement
    <2>3. IsFiniteSet((0..C - 1) \X (1..G))
        BY <2>1, FS_Product
    <2> QED BY <2>2, <2>3, FS_Product DEF GamesOf
<1>2. ASSUME NEW x \in X
      PROVE  /\ x = <<x[1], <<x[2][1], x[2][2]>>>> /\ x[1] \in 1..n /\ x[1] /= a /\ x[2][1] \in 0..C - 1 /\ x[2][2] \in 1..G
             /\ x[2] = <<x[2][1], x[2][2]>>
    BY DEF GamesOf
<1>3. ASSUME NEW b \in 1..n, b /= a, NEW c \in 0..C - 1, NEW g \in 1..G
      PROVE  <<b, <<c, g>>>> \in X
    BY <1>3 DEF GamesOf
<1>4. PICK F : F = [x \in X |-> MateOf(a, n, C, G, x)]
    OBVIOUS
<1>5. ASSUME NEW b \in 1..n, b /= a, NEW c \in 0..C - 1, NEW g \in 1..G, NEW x, x = <<b, <<c, g>>>>
      PROVE  /\ F[x] \in X /\ F[F[x]] = x
             /\ F[x] /= x => (FirstSeat(a, n, F[x]) <=> ~FirstSeat(a, n, x))
             /\ F[x] = x => g = G /\ c = C - 1 /\ Mirror(a, b, n) = b
    <2>1. \A e \in 1..n, d \in 0..C - 1, k \in 1..G : e /= a =>
             F[<<e, <<d, k>>>>] = IF GameMate(k, G) /= k THEN <<e, <<d, GameMate(k, G)>>>>
                                  ELSE IF CycleMate(d, C) /= d THEN <<e, <<CycleMate(d, C), k>>>>
                                  ELSE <<Mirror(a, e, n), <<d, k>>>>
        <3>1. ASSUME NEW e \in 1..n, NEW d \in 0..C - 1, NEW k \in 1..G, e /= a
              PROVE  F[<<e, <<d, k>>>>] = IF GameMate(k, G) /= k THEN <<e, <<d, GameMate(k, G)>>>>
                                  ELSE IF CycleMate(d, C) /= d THEN <<e, <<CycleMate(d, C), k>>>>
                                  ELSE <<Mirror(a, e, n), <<d, k>>>>
            <4>1. PICK y \in X : y = <<e, <<d, k>>>>
                BY <1>3, <3>1
            <4>2. y[1] = e /\ y[2] = <<d, k>> /\ y[2][1] = d /\ y[2][2] = k
                BY <4>1
            <4>3. F[y] = MateOf(a, n, C, G, y)
                BY <1>4
            <4> QED BY <4>1, <4>2, <4>3 DEF MateOf
        <3> QED BY <3>1
    <2>2. /\ GameMate(g, G) \in 1..G /\ GameMate(GameMate(g, G), G) = g
          /\ GameMate(g, G) /= g => (GameMate(g, G) % 2 = 1 <=> ~(g % 2 = 1))
          /\ GameMate(g, G) = g => g = G
        BY MateFacts
    <2>3. /\ CycleMate(c, C) \in 0..C - 1 /\ CycleMate(CycleMate(c, C), C) = c
          /\ CycleMate(c, C) /= c => CycleMate(c, C) = c + 1 \/ c = CycleMate(c, C) + 1
          /\ CycleMate(c, C) = c => c = C - 1
        BY MateFacts
    <2>4. FirstSeat(a, n, x) <=> (Leads(a, b, n, c) <=> g % 2 = 1)
        <3>1. x[1] = b /\ x[2][1] = c /\ x[2][2] = g
            BY <1>5
        <3> QED BY <3>1, Zenon DEF FirstSeat
    <2>5. CASE GameMate(g, G) /= g
        <3>1. PICK k \in 1..G : k = GameMate(g, G)
            BY <2>2
        <3>2. F[x] = <<b, <<c, k>>>>
            BY <1>5, <2>1, <2>5, <3>1
        <3>3. F[F[x]] = x
            BY <1>5, <2>1, <2>2, <2>5, <3>1, <3>2, ZenonT(60)
        <3>4. FirstSeat(a, n, F[x]) <=> (Leads(a, b, n, c) <=> k % 2 = 1)
            <4>1. F[x][1] = b /\ F[x][2][1] = c /\ F[x][2][2] = k
                BY <3>2
            <4> QED BY <4>1, Zenon DEF FirstSeat
        <3>5. F[x] /= x
            BY <1>5, <2>5, <3>1, <3>2
        <3>6. F[x] \in X
            BY <1>3, <1>5, <3>2
        <3> QED BY <2>2, <2>4, <2>5, <3>1, <3>3, <3>4, <3>5, <3>6
    <2>6. CASE GameMate(g, G) = g /\ CycleMate(c, C) /= c
        <3>1. PICK d \in 0..C - 1 : d = CycleMate(c, C)
            BY <2>3
        <3>2. F[x] = <<b, <<d, g>>>>
            BY <1>5, <2>1, <2>6, <3>1
        <3>3. F[F[x]] = x
            <4>1. GameMate(g, G) = g /\ CycleMate(d, C) = c /\ c /= d
                BY <2>3, <2>6, <3>1
            <4>2. F[<<b, <<d, g>>>>] = <<b, <<CycleMate(d, C), g>>>>
                BY <1>5, <2>1, <4>1
            <4> QED BY <1>5, <3>2, <4>1, <4>2
        <3>4. FirstSeat(a, n, F[x]) <=> (Leads(a, b, n, d) <=> g % 2 = 1)
            <4>1. F[x][1] = b /\ F[x][2][1] = d /\ F[x][2][2] = g
                BY <3>2
            <4> QED BY <4>1, Zenon DEF FirstSeat
        <3>5. F[x] /= x
            BY <1>5, <2>6, <3>1, <3>2
        <3>6. F[x] \in X
            BY <1>3, <1>5, <3>2
        <3>7. Leads(a, b, n, d) <=> ~Leads(a, b, n, c)
            <4>1. c \in Nat /\ d \in Nat
                OBVIOUS
            <4>2. Leads(a, b, n, c + 1) <=> ~Leads(a, b, n, c)
                BY <1>5, <4>1, LeadsFacts
            <4>3. Leads(a, b, n, d + 1) <=> ~Leads(a, b, n, d)
                BY <1>5, <4>1, LeadsFacts
            <4>4. d = c + 1 \/ c = d + 1
                BY <2>3, <2>6, <3>1
            <4> QED BY <4>2, <4>3, <4>4
        <3> QED BY <2>4, <3>3, <3>4, <3>5, <3>6, <3>7, Zenon
    <2>7. CASE GameMate(g, G) = g /\ CycleMate(c, C) = c
        <3>0. /\ Mirror(a, b, n) \in 1..n /\ Mirror(a, b, n) /= a
              /\ Mirror(a, Mirror(a, b, n), n) = b
              /\ \A q \in Nat : Mirror(a, b, n) /= b => (Leads(a, Mirror(a, b, n), n, q) <=> ~Leads(a, b, n, q))
            BY <1>5, MirrorFacts
        <3>1. PICK e \in 1..n : e = Mirror(a, b, n) /\ e /= a
            BY <3>0
        <3>2. F[x] = <<e, <<c, g>>>>
            BY <1>5, <2>1, <2>7, <3>1
        <3>3. F[F[x]] = x
            BY <1>5, <2>1, <2>7, <3>0, <3>1, <3>2, ZenonT(60)
        <3>4. FirstSeat(a, n, F[x]) <=> (Leads(a, e, n, c) <=> g % 2 = 1)
            <4>1. F[x][1] = e /\ F[x][2][1] = c /\ F[x][2][2] = g
                BY <3>2
            <4> QED BY <4>1, Zenon DEF FirstSeat
        <3>5. F[x] = x => e = b
            BY <1>5, <3>2
        <3>6. F[x] \in X
            BY <1>3, <3>1, <3>2
        <3>7. e /= b => (Leads(a, e, n, c) <=> ~Leads(a, b, n, c))
            <4>1. c \in Nat
                OBVIOUS
            <4> QED BY <3>0, <3>1, <4>1
        <3>8. e = b => F[x] = x
            BY <1>5, <3>2
        <3>9. F[x] /= x => (FirstSeat(a, n, F[x]) <=> ~FirstSeat(a, n, x))
            BY <2>4, <3>4, <3>7, <3>8, Zenon
        <3> QED BY <2>2, <2>3, <2>7, <3>1, <3>3, <3>5, <3>6, <3>9
    <2> QED BY <2>5, <2>6, <2>7
<1>6. ASSUME NEW x \in X
      PROVE  /\ F[x] \in X /\ F[F[x]] = x
             /\ F[x] /= x => (F[x] \in Y <=> x \notin Y)
             /\ F[x] = x => x[2] = <<C - 1, G>> /\ Mirror(a, x[1], n) = x[1]
    <2>1. PICK b \in 1..n, c \in 0..C - 1, g \in 1..G : b /= a /\ x = <<b, <<c, g>>>> /\ x[1] = b /\ x[2] = <<c, g>>
        BY <1>2
    <2>2. /\ F[x] \in X /\ F[F[x]] = x
          /\ F[x] /= x => (FirstSeat(a, n, F[x]) <=> ~FirstSeat(a, n, x))
          /\ F[x] = x => g = G /\ c = C - 1 /\ Mirror(a, b, n) = b
        BY <1>5, <2>1
    <2> QED BY <2>1, <2>2
<1>7. ASSUME NEW x \in X, NEW y \in X, F[x] = x, F[y] = y
      PROVE  x = y
    <2>1. x[2] = y[2] /\ Mirror(a, x[1], n) = x[1] /\ Mirror(a, y[1], n) = y[1]
        BY <1>6, <1>7
    <2>2. x[1] \in 1..n /\ x[1] /= a /\ y[1] \in 1..n /\ y[1] /= a
        BY <1>2
    <2>3. x[1] = y[1]
        BY <2>1, <2>2, MirrorFacts, ZenonT(60)
    <2> QED BY <1>2, <2>1, <2>3
<1>8. F \in [X -> X]
    BY <1>4, <1>6
<1>9. Y \subseteq X
    OBVIOUS
<1>10. (\A x \in X : F[F[x]] = x) /\ (\A x \in X : F[x] /= x => (F[x] \in Y <=> x \notin Y))
    BY <1>6
<1>11. \A x, y \in X : F[x] = x /\ F[y] = y => x = y
    BY <1>7
<1> QED BY <1>1, <1>8, <1>9, <1>10, <1>11, EvenSplit

\* A static schedule has been made, of C cycles of M rounds of T tables.
StaticDone(n, M, T, C, G) ==
    /\ StaticSpecOK(tnSpec) /\ n = tnSpec.n /\ C = tnSpec.cycles /\ G = tnSpec.games
    /\ M \in Nat \ {0} /\ M = (n + (n % 2)) - 1 /\ T \in Nat \ {0} /\ T = n \div 2
    /\ tnMatches = StaticMatches(tnSpec) /\ tnByes = StaticByes(tnSpec)

\* The numbers a finished static schedule is built from.
LEMMA StaticRanges ==
    ASSUME NEW n, NEW M, NEW T, NEW C, NEW G, StaticDone(n, M, T, C, G)
    PROVE  /\ n \in Nat /\ n >= 2 /\ M \in Nat /\ M \in Nat \ {0} /\ T \in Nat \ {0} /\ T = n \div 2 /\ C \in Nat
           /\ G \in Nat \ {0} /\ G \in Nat /\ \A c \in 0..C - 1 : c \in Nat
           /\ CircleIsFair(n, M, T) /\ StaticSpecOK(tnSpec) /\ M = (n + (n % 2)) - 1
<1>1. /\ StaticSpecOK(tnSpec) /\ n = tnSpec.n /\ C = tnSpec.cycles /\ G = tnSpec.games
      /\ M \in Nat \ {0} /\ M = (n + (n % 2)) - 1 /\ T \in Nat \ {0} /\ T = n \div 2
    BY DEF StaticDone
<1>2. n \in Nat /\ n >= 2 /\ C \in Nat /\ G \in Nat \ {0} /\ G \in Nat /\ M \in Nat
    BY <1>1 DEF StaticSpecOK
<1>3. CircleIsFair(n, M, n \div 2)
    BY <1>1, <1>2, CircleFacts
<1> QED BY <1>1, <1>2, <1>3

\* Its matches are those of the tables, each once.
StaticIndexed(M, T, C, G) ==
    /\ \A c \in 0..C - 1, r \in 1..M, t \in 1..T, g \in 1..G :
          /\ StaticPlace(M, T, G, c, r, t, g) \in DOMAIN tnMatches
          /\ MatchIsFair(tnMatches[StaticPlace(M, T, G, c, r, t, g)], tnSpec, M, c, r, t, g)
    /\ \A i \in DOMAIN tnMatches : \E c \in 0..C - 1, r \in 1..M, t \in 1..T, g \in 1..G :
          i = StaticPlace(M, T, G, c, r, t, g)
    /\ \A c, d \in 0..C - 1, r, q \in 1..M, t, u \in 1..T, g, k \in 1..G :
          StaticPlace(M, T, G, c, r, t, g) = StaticPlace(M, T, G, d, q, u, k) => c = d /\ r = q /\ t = u /\ g = k

\* A finished static schedule, indexed by cycle, round, table and game.
LEMMA StaticIndex ==
    ASSUME NEW n, NEW M, NEW T, NEW C, NEW G, StaticDone(n, M, T, C, G)
    PROVE  StaticIndexed(M, T, C, G)
<1>1. /\ StaticSpecOK(tnSpec) /\ n = tnSpec.n /\ C = tnSpec.cycles /\ G = tnSpec.games
      /\ M \in Nat \ {0} /\ M = (n + (n % 2)) - 1 /\ T \in Nat \ {0} /\ T = n \div 2
    BY DEF StaticDone
<1>2. n \in Nat /\ C \in Nat /\ G \in Nat \ {0} /\ M \in Nat
    BY StaticRanges
<1>3. StaticLaidOut(tnMatches, tnSpec, M, T)
    BY <1>1, StaticIsLaidOut DEF StaticDone
<1>4. PICK N : N = (C * M) * (T * G)
    OBVIOUS
<1>5. N \in Nat /\ StaticPlaces(C, M, T, G, N)
    BY <1>1, <1>2, <1>4, StaticPlaceFacts
<1>6. DOMAIN tnMatches = 1..N
    <2>1. tnMatches \in Seq(MatchRecords) /\ Len(tnMatches) = N
        BY <1>1, <1>3, <1>4 DEF StaticLaidOut
    <2> QED BY <2>1
<1>7. ASSUME NEW c \in 0..C - 1, NEW r \in 1..M, NEW t \in 1..T, NEW g \in 1..G
      PROVE  MatchIsFair(tnMatches[StaticPlace(M, T, G, c, r, t, g)], tnSpec, M, c, r, t, g)
    <2>1. tnMatches[StaticPlace(M, T, G, c, r, t, g)] = StaticMatch(tnSpec, M, c, r, t, g)
        BY <1>1, <1>3 DEF StaticLaidOut
    <2>2. c \in Nat
        BY <1>2
    <2> QED BY <1>1, <1>2, <2>1, <2>2, StaticMatchFacts
<1>8. StaticPlaces(C, M, T, G, N)
    BY <1>5
<1> QED BY <1>6, <1>7, <1>8, Zenon DEF StaticIndexed, StaticPlaces

\* Where a match lies and whose it is.
LEMMA StaticAt ==
    ASSUME NEW n, NEW M, NEW T, NEW C, NEW G, StaticDone(n, M, T, C, G), NEW i \in DOMAIN tnMatches
    PROVE  \E c \in 0..C - 1, r \in 1..M, t \in 1..T, g \in 1..G :
               i = StaticPlace(M, T, G, c, r, t, g) /\ MatchIsFair(tnMatches[i], tnSpec, M, c, r, t, g)
<1>1. StaticIndexed(M, T, C, G)
    BY StaticIndex
<1> QED BY <1>1, Zenon DEF StaticIndexed

\* Rounds are counted through the cycles.
RoundsDiffer(C, M) ==
    \A c, d \in 0..C - 1, r, q \in 1..M : Place(c + 1, r, M) = Place(d + 1, q, M) => c = d /\ r = q

\* Rounds of different cycles or places have different numbers.
LEMMA RoundsApart ==
    ASSUME NEW C \in Nat, NEW M \in Nat \ {0}
    PROVE  RoundsDiffer(C, M)
<1> SUFFICES ASSUME NEW c \in 0..C - 1, NEW r \in 1..M, NEW d \in 0..C - 1, NEW q \in 1..M,
                    Place(c + 1, r, M) = Place(d + 1, q, M)
             PROVE  c = d /\ r = q
    BY DEF RoundsDiffer
<1>1. PICK x \in 1..C, y \in 1..C : x = c + 1 /\ y = d + 1
    OBVIOUS
<1>2. \A t, u \in 1..C, g, k \in 1..M : Place(t, g, M) = Place(u, k, M) => t = u /\ g = k
    BY PlaceFacts, Zenon
<1>3. x = y /\ r = q
    BY <1>1, <1>2
<1> QED BY <1>1, <1>3

\* Nobody is booked twice.
LEMMA StaticBooking ==
    ASSUME NEW n, NEW M, NEW T, NEW C, NEW G, StaticDone(n, M, T, C, G)
    PROVE  NoDoubleBooking
<1>1. /\ M \in Nat \ {0} /\ n \in Nat /\ C \in Nat /\ CircleIsFair(n, M, T)
      /\ StaticSpecOK(tnSpec) /\ M = (n + (n % 2)) - 1
    BY StaticRanges
<1>2. tnByes = StaticByes(tnSpec) /\ n = tnSpec.n /\ C = tnSpec.cycles
    BY DEF StaticDone
<1>5. \A c, d \in 0..C - 1, r, q \in 1..M : Place(c + 1, r, M) = Place(d + 1, q, M) => c = d /\ r = q
    <2>1. RoundsDiffer(C, M)
        BY <1>1, RoundsApart
    <2> QED BY <2>1, Zenon DEF RoundsDiffer
<1>3. ASSUME NEW i \in DOMAIN tnMatches, NEW j \in DOMAIN tnMatches,
             i /= j, tnMatches[i].round = tnMatches[j].round, tnMatches[i].game = tnMatches[j].game
      PROVE  {tnMatches[i].one, tnMatches[i].two} \cap {tnMatches[j].one, tnMatches[j].two} = {}
    <2>1. PICK c \in 0..C - 1, r \in 1..M, t \in 1..T, g \in 1..G :
               i = StaticPlace(M, T, G, c, r, t, g) /\ MatchIsFair(tnMatches[i], tnSpec, M, c, r, t, g)
        BY StaticAt
    <2>2. PICK d \in 0..C - 1, q \in 1..M, u \in 1..T, k \in 1..G :
               j = StaticPlace(M, T, G, d, q, u, k) /\ MatchIsFair(tnMatches[j], tnSpec, M, d, q, u, k)
        BY StaticAt
    <2>3. tnMatches[i].round = Place(c + 1, r, M) /\ tnMatches[i].game = g
          /\ {tnMatches[i].one, tnMatches[i].two} = MeetAt(n, r, t)
        BY <1>2, <2>1, Zenon DEF MatchIsFair
    <2>4. tnMatches[j].round = Place(d + 1, q, M) /\ tnMatches[j].game = k
          /\ {tnMatches[j].one, tnMatches[j].two} = MeetAt(n, q, u)
        BY <1>2, <2>2, Zenon DEF MatchIsFair
    <2>5. g = k /\ Place(c + 1, r, M) = Place(d + 1, q, M)
        BY <1>3, <2>3, <2>4
    <2>6. c = d /\ r = q
        BY <1>5, <2>5, Zenon
    <2>7. t /= u
        BY <1>3, <2>1, <2>2, <2>5, <2>6
    <2>8. MeetAt(n, r, t) \cap MeetAt(n, r, u) = {}
        <3>1. \A x \in 1..M, y, z \in 1..T : y /= z => MeetAt(n, x, y) \cap MeetAt(n, x, z) = {}
            BY <1>1, Zenon DEF CircleIsFair
        <3> QED BY <2>7, <3>1, Zenon
    <2> QED BY <2>3, <2>4, <2>6, <2>8
<1>4. ASSUME NEW i \in DOMAIN tnMatches
      PROVE  /\ tnMatches[i].one /= tnMatches[i].two
             /\ \A b \in tnByes : b.round = tnMatches[i].round => b.entrant \notin {tnMatches[i].one, tnMatches[i].two}
    <2>1. PICK c \in 0..C - 1, r \in 1..M, t \in 1..T, g \in 1..G :
               i = StaticPlace(M, T, G, c, r, t, g) /\ MatchIsFair(tnMatches[i], tnSpec, M, c, r, t, g)
        BY StaticAt
    <2>2. /\ tnMatches[i].round = Place(c + 1, r, M) /\ {tnMatches[i].one, tnMatches[i].two} = MeetAt(n, r, t)
          /\ tnMatches[i].one /= tnMatches[i].two
        BY <1>2, <2>1, Zenon DEF MatchIsFair
    <2>3. ASSUME NEW b \in tnByes, b.round = tnMatches[i].round
          PROVE  b.entrant \notin {tnMatches[i].one, tnMatches[i].two}
        <3>1. PICK d \in 0..C - 1, q \in 1..M : \E e \in RestAt(n, q) :
                 b = [round |-> Place(d + 1, q, M), entrant |-> e]
            BY <1>1, <1>2, StaticByeFacts
        <3>2. PICK e \in RestAt(n, q) : b = [round |-> Place(d + 1, q, M), entrant |-> e]
            BY <3>1
        <3>3. b.round = Place(d + 1, q, M) /\ b.entrant = e
            BY <3>2
        <3>4. Place(c + 1, r, M) = Place(d + 1, q, M)
            BY <2>2, <2>3, <3>3
        <3>5. r = q
            BY <1>5, <3>4, Zenon
        <3>6. MeetAt(n, r, t) \cap RestAt(n, r) = {}
            BY <1>1 DEF CircleIsFair
        <3> QED BY <2>2, <3>2, <3>3, <3>5, <3>6
    <2> QED BY <2>2, <2>3
<1> QED BY <1>3, <1>4, Zenon DEF NoDoubleBooking

\* As many cycles, as many games.
LEMMA CountTo ==
    ASSUME NEW C \in Nat
    PROVE  /\ IsFiniteSet(0..C - 1) /\ Cardinality(0..C - 1) = C
           /\ IsFiniteSet(1..C) /\ Cardinality(1..C) = C
<1>1. /\ IsFiniteSet(0..C - 1)
      /\ Cardinality(0..C - 1) = IF 0 > C - 1 THEN 0 ELSE (C - 1) - 0 + 1
    BY FS_Interval
<1>2. IsFiniteSet(1..C) /\ Cardinality(1..C) = IF 1 > C THEN 0 ELSE C - 1 + 1
    BY FS_Interval
<1> QED BY <1>1, <1>2

\* Any two meet as often as there are games in the cycles.
LEMMA StaticMeetings ==
    ASSUME NEW n, NEW M, NEW T, NEW C, NEW G, StaticDone(n, M, T, C, G), NEW a \in 1..n, NEW b \in 1..n, a /= b
    PROVE  Cardinality(Meetings(a, b)) = C * G
<1>1. M \in Nat /\ n \in Nat /\ CircleIsFair(n, M, T) /\ C \in Nat /\ G \in Nat
    BY StaticRanges
<1>2. PICK r \in 1..M, t \in 1..T : MeetAt(n, r, t) = {a, b}
    BY <1>1 DEF CircleIsFair
<1>3. StaticIndexed(M, T, C, G)
    BY StaticIndex
<1>4. n = tnSpec.n
    BY DEF StaticDone
<1>5. PICK X : X = (0..C - 1) \X (1..G)
    OBVIOUS
<1>6. IsFiniteSet(X) /\ Cardinality(X) = C * G
    <2>1. IsFiniteSet(0..C - 1) /\ Cardinality(0..C - 1) = C
        BY <1>1, CountTo
    <2>2. IsFiniteSet(1..G) /\ Cardinality(1..G) = G
        BY <1>1, CountTo
    <2> QED BY <1>5, <2>1, <2>2, FS_Product, ZenonT(60)
<1>7. PICK f : f = [x \in X |-> StaticPlace(M, T, G, x[1], r, t, x[2])]
    OBVIOUS
<1>8. ASSUME NEW x \in X
      PROVE  x = <<x[1], x[2]>> /\ x[1] \in 0..C - 1 /\ x[2] \in 1..G
    BY <1>5
<1>9. ASSUME NEW x \in X
      PROVE  f[x] \in Meetings(a, b)
    <2>1. f[x] = StaticPlace(M, T, G, x[1], r, t, x[2])
        BY <1>7
    <2>2. f[x] \in DOMAIN tnMatches /\ MatchIsFair(tnMatches[f[x]], tnSpec, M, x[1], r, t, x[2])
        BY <1>3, <2>1, <1>8 DEF StaticIndexed
    <2>3. {tnMatches[f[x]].one, tnMatches[f[x]].two} = MeetAt(n, r, t)
        BY <1>4, <2>2, Zenon DEF MatchIsFair
    <2> QED BY <1>2, <2>2, <2>3 DEF Meetings
<1>10. ASSUME NEW x \in X, NEW y \in X, f[x] = f[y]
       PROVE  x = y
    <2>1. StaticPlace(M, T, G, x[1], r, t, x[2]) = StaticPlace(M, T, G, y[1], r, t, y[2])
        BY <1>7, <1>10
    <2>2. x[1] = y[1] /\ x[2] = y[2]
        BY <1>3, <1>8, <2>1 DEF StaticIndexed
    <2> QED BY <1>8, <2>2
<1>11. ASSUME NEW i \in Meetings(a, b)
       PROVE  \E x \in X : f[x] = i
    <2>1. i \in DOMAIN tnMatches /\ {tnMatches[i].one, tnMatches[i].two} = {a, b}
        BY DEF Meetings
    <2>2. PICK c \in 0..C - 1, q \in 1..M, u \in 1..T, g \in 1..G :
               i = StaticPlace(M, T, G, c, q, u, g) /\ MatchIsFair(tnMatches[i], tnSpec, M, c, q, u, g)
        BY <2>1, StaticAt
    <2>3. MeetAt(n, q, u) = {a, b}
        BY <1>4, <2>1, <2>2, Zenon DEF MatchIsFair
    <2>4. q = r /\ u = t
        <3>1. \A x, y \in 1..M, z, w \in 1..T : MeetAt(n, x, z) = MeetAt(n, y, w) => x = y /\ z = w
            BY <1>1, Zenon DEF CircleIsFair
        <3>2. MeetAt(n, q, u) = MeetAt(n, r, t)
            BY <1>2, <2>3
        <3> QED BY <3>1, <3>2
    <2>5. PICK x \in X : x = <<c, g>>
        BY <1>5
    <2>6. f[x] = StaticPlace(M, T, G, c, r, t, g)
        BY <1>7, <2>5
    <2> QED BY <2>2, <2>4, <2>6
<1>12. f \in [X -> Meetings(a, b)]
    BY <1>7, <1>9
<1>13. Cardinality(Meetings(a, b)) = Cardinality(X)
    BY <1>6, <1>10, <1>11, <1>12, SameCount
<1> QED BY <1>6, <1>13

\* Who rests, rests once in every cycle.
LEMMA StaticRests ==
    ASSUME NEW n, NEW M, NEW T, NEW C, NEW G, StaticDone(n, M, T, C, G), NEW a \in 1..n
    PROVE  Cardinality({ x \in tnByes : x.entrant = a }) = IF n % 2 = 0 THEN 0 ELSE C
<1>1. M \in Nat \ {0} /\ n \in Nat /\ C \in Nat /\ CircleIsFair(n, M, T) /\ StaticSpecOK(tnSpec) /\ M = (n + (n % 2)) - 1
    BY StaticRanges
<1>2. tnByes = StaticByes(tnSpec) /\ n = tnSpec.n /\ C = tnSpec.cycles
    BY DEF StaticDone
<1>3. \A c \in 0..C - 1, r \in 1..M : \A e \in RestAt(n, r) : [round |-> Place(c + 1, r, M), entrant |-> e] \in tnByes
    BY <1>1, <1>2, StaticByeFacts
<1>4. \A b \in tnByes : \E c \in 0..C - 1, r \in 1..M : \E e \in RestAt(n, r) :
                 b = [round |-> Place(c + 1, r, M), entrant |-> e]
    BY <1>1, <1>2, StaticByeFacts
<1>5. PICK S : S = { x \in tnByes : x.entrant = a }
    OBVIOUS
<1>6. ASSUME NEW b \in S
      PROVE  \E c \in 0..C - 1, r \in 1..M : a \in RestAt(n, r) /\ b = [round |-> Place(c + 1, r, M), entrant |-> a]
    <2>1. PICK c \in 0..C - 1, r \in 1..M : \E e \in RestAt(n, r) : b = [round |-> Place(c + 1, r, M), entrant |-> e]
        BY <1>4, <1>5
    <2>2. PICK e \in RestAt(n, r) : b = [round |-> Place(c + 1, r, M), entrant |-> e]
        BY <2>1
    <2>3. e = a
        BY <1>5, <2>2
    <2> QED BY <2>2, <2>3
<1>7. CASE n % 2 = 0
    <2>1. \A r \in 1..M : RestAt(n, r) = {}
        BY <1>1, <1>7, Zenon DEF CircleIsFair
    <2>2. S = {}
        BY <1>6, <2>1
    <2> QED BY <1>5, <1>7, <2>2, FS_EmptySet
<1>8. CASE n % 2 = 1
    <2>1. PICK r \in 1..M : a \in RestAt(n, r)
        BY <1>1, <1>8 DEF CircleIsFair
    <2>2. \A q \in 1..M : a \in RestAt(n, q) => q = r
        <3>1. \A x \in 1..n, p, q \in 1..M : x \in RestAt(n, p) /\ x \in RestAt(n, q) => p = q
            BY <1>1, Zenon DEF CircleIsFair
        <3> QED BY <2>1, <3>1
    <2>3. PICK f : f = [c \in 0..C - 1 |-> [round |-> Place(c + 1, r, M), entrant |-> a]]
        OBVIOUS
    <2>4. ASSUME NEW c \in 0..C - 1
          PROVE  f[c] \in S /\ f[c].round = Place(c + 1, r, M)
        <3>1. f[c] = [round |-> Place(c + 1, r, M), entrant |-> a] /\ f[c].entrant = a
            BY <2>3
        <3>2. f[c] \in tnByes
            BY <1>3, <2>1, <3>1
        <3> QED BY <1>5, <3>1, <3>2
    <2>5. ASSUME NEW c \in 0..C - 1, NEW d \in 0..C - 1, f[c] = f[d]
          PROVE  c = d
        <3>1. RoundsDiffer(C, M)
            BY <1>1, RoundsApart
        <3>2. Place(c + 1, r, M) = Place(d + 1, r, M)
            BY <2>4, <2>5
        <3> QED BY <3>1, <3>2 DEF RoundsDiffer
    <2>6. ASSUME NEW b \in S
          PROVE  \E c \in 0..C - 1 : f[c] = b
        <3>1. PICK c \in 0..C - 1, q \in 1..M : a \in RestAt(n, q) /\ b = [round |-> Place(c + 1, q, M), entrant |-> a]
            BY <1>6
        <3>2. q = r
            BY <2>2, <3>1
        <3>3. f[c] = b
            BY <2>3, <3>1, <3>2
        <3> QED BY <3>3
    <2>7. f \in [0..C - 1 -> S]
        BY <2>3, <2>4
    <2>8. PICK D : D = 0..C - 1
        OBVIOUS
    <2>9. IsFiniteSet(D) /\ Cardinality(D) = C
        BY <1>1, <2>8, CountTo
    <2>10. Cardinality(S) = Cardinality(D)
        <3>1. f \in [D -> S] /\ (\A x, y \in D : f[x] = f[y] => x = y) /\ (\A z \in S : \E x \in D : f[x] = z)
            BY <2>5, <2>6, <2>7, <2>8
        <3> QED BY <2>9, <3>1, SameCount
    <2> QED BY <1>5, <1>8, <2>9, <2>10
<1> QED BY <1>1, <1>7, <1>8

\* The games of a lie where the tables are at which a meets the others.
LEMMA StaticSeats ==
    ASSUME NEW n, NEW M, NEW T, NEW C, NEW G, StaticDone(n, M, T, C, G), NEW a \in 1..n
    PROVE  AbsDiff(Sits(a, 1), Sits(a, 2)) <= 1
<1>1. M \in Nat /\ n \in Nat /\ CircleIsFair(n, M, T) /\ C \in Nat /\ G \in Nat
    BY StaticRanges
<1>2. n = tnSpec.n /\ StaticIndexed(M, T, C, G)
    BY StaticIndex DEF StaticDone
<1>3. PICK X : X = GamesOf(a, n, C, G)
    OBVIOUS
<1>4. PICK Y : Y = { x \in X : FirstSeat(a, n, x) }
    OBVIOUS
<1>5. SplitsEvenly(X, Y)
    BY <1>1, <1>3, <1>4, SeatsEvenOut
<1>6. ASSUME NEW x \in X
      PROVE  /\ x = <<x[1], <<x[2][1], x[2][2]>>>> /\ x[1] \in 1..n /\ x[1] /= a /\ x[2][1] \in 0..C - 1 /\ x[2][2] \in 1..G
    BY <1>3 DEF GamesOf
<1>7. PICK rd, tb : \A b \in 1..n \ {a} : rd[b] \in 1..M /\ tb[b] \in 1..T /\ MeetAt(n, rd[b], tb[b]) = {a, b}
    <2>1. \A b \in 1..n \ {a} : \E r \in 1..M : \E t \in 1..T : MeetAt(n, r, t) = {a, b}
        BY <1>1 DEF CircleIsFair
    <2>2. PICK rd : rd = [b \in 1..n \ {a} |-> CHOOSE r \in 1..M : \E t \in 1..T : MeetAt(n, r, t) = {a, b}]
        OBVIOUS
    <2>3. \A b \in 1..n \ {a} : rd[b] \in 1..M /\ \E t \in 1..T : MeetAt(n, rd[b], t) = {a, b}
        BY <2>1, <2>2
    <2>4. PICK tb : tb = [b \in 1..n \ {a} |-> CHOOSE t \in 1..T : MeetAt(n, rd[b], t) = {a, b}]
        OBVIOUS
    <2>5. \A b \in 1..n \ {a} : tb[b] \in 1..T /\ MeetAt(n, rd[b], tb[b]) = {a, b}
        BY <2>3, <2>4
    <2> QED BY <2>3, <2>5
<1>8. PICK h : h = [x \in X |-> StaticPlace(M, T, G, x[2][1], rd[x[1]], tb[x[1]], x[2][2])]
    OBVIOUS
<1>9. ASSUME NEW x \in X
      PROVE  /\ h[x] \in DOMAIN tnMatches
             /\ tnMatches[h[x]].one = a <=> FirstSeat(a, n, x)
             /\ tnMatches[h[x]].two = a <=> ~FirstSeat(a, n, x)
    <2>1. PICK b \in 1..n \ {a}, c \in 0..C - 1, g \in 1..G : x = <<b, <<c, g>>>>
        BY <1>6
    <2>2. PICK r \in 1..M, t \in 1..T : r = rd[b] /\ t = tb[b] /\ MeetAt(n, r, t) = {a, b}
        BY <1>7
    <2>3. x[1] = b /\ x[2][1] = c /\ x[2][2] = g
        BY <2>1
    <2>4. h[x] = StaticPlace(M, T, G, c, r, t, g)
        BY <1>8, <2>2, <2>3
    <2>5. h[x] \in DOMAIN tnMatches /\ MatchIsFair(tnMatches[h[x]], tnSpec, M, c, r, t, g)
        BY <1>2, <2>4 DEF StaticIndexed
    <2>6. b \in 1..n /\ a /= b
        OBVIOUS
    <2>7. /\ tnMatches[h[x]].one = a <=> (Leads(a, b, n, c) <=> g % 2 = 1)
          /\ tnMatches[h[x]].two = a <=> ~(Leads(a, b, n, c) <=> g % 2 = 1)
        BY <1>2, <2>2, <2>5, <2>6, Zenon DEF MatchIsFair
    <2>8. FirstSeat(a, n, x) <=> (Leads(a, b, n, c) <=> g % 2 = 1)
        BY <2>3, Zenon DEF FirstSeat
    <2> QED BY <2>5, <2>7, <2>8, Zenon
<1>10. ASSUME NEW x \in X, NEW y \in X, h[x] = h[y]
       PROVE  x = y
    <2>1. PICK b \in 1..n \ {a}, c \in 0..C - 1, g \in 1..G : x = <<b, <<c, g>>>> /\ x[1] = b /\ x[2][1] = c /\ x[2][2] = g
        BY <1>6
    <2>2. PICK e \in 1..n \ {a}, d \in 0..C - 1, k \in 1..G : y = <<e, <<d, k>>>> /\ y[1] = e /\ y[2][1] = d /\ y[2][2] = k
        BY <1>6
    <2>3. PICK r \in 1..M, t \in 1..T : r = rd[b] /\ t = tb[b] /\ MeetAt(n, r, t) = {a, b}
        BY <1>7
    <2>4. PICK q \in 1..M, u \in 1..T : q = rd[e] /\ u = tb[e] /\ MeetAt(n, q, u) = {a, e}
        BY <1>7
    <2>5. h[x] = StaticPlace(M, T, G, c, r, t, g) /\ h[y] = StaticPlace(M, T, G, d, q, u, k)
        BY <1>8, <2>1, <2>2, <2>3, <2>4
    <2>6. c = d /\ r = q /\ t = u /\ g = k
        <3>1. StaticPlace(M, T, G, c, r, t, g) = StaticPlace(M, T, G, d, q, u, k)
            BY <1>10, <2>5
        <3>2. \A c1, d1 \in 0..C - 1, r1, q1 \in 1..M, t1, u1 \in 1..T, g1, k1 \in 1..G :
                 StaticPlace(M, T, G, c1, r1, t1, g1) = StaticPlace(M, T, G, d1, q1, u1, k1)
                    => c1 = d1 /\ r1 = q1 /\ t1 = u1 /\ g1 = k1
            BY <1>2, Zenon DEF StaticIndexed
        <3> QED BY <3>1, <3>2
    <2>7. {a, b} = {a, e}
        BY <2>3, <2>4, <2>6
    <2>8. b = e
        BY <2>7
    <2> QED BY <2>1, <2>2, <2>6, <2>8
<1>11. ASSUME NEW i \in DOMAIN tnMatches, tnMatches[i].one = a \/ tnMatches[i].two = a
       PROVE  \E x \in X : h[x] = i
    <2>1. PICK c \in 0..C - 1, q \in 1..M, u \in 1..T, g \in 1..G :
               i = StaticPlace(M, T, G, c, q, u, g) /\ MatchIsFair(tnMatches[i], tnSpec, M, c, q, u, g)
        BY StaticAt
    <2>2. /\ tnMatches[i].one \in 1..n /\ tnMatches[i].two \in 1..n /\ tnMatches[i].one /= tnMatches[i].two
          /\ {tnMatches[i].one, tnMatches[i].two} = MeetAt(n, q, u)
        BY <1>2, <2>1, Zenon DEF MatchIsFair
    <2>3. PICK b \in 1..n \ {a} : MeetAt(n, q, u) = {a, b}
        BY <1>11, <2>2
    <2>4. PICK r \in 1..M, t \in 1..T : r = rd[b] /\ t = tb[b] /\ MeetAt(n, r, t) = {a, b}
        BY <1>7
    <2>5. q = r /\ u = t
        <3>1. \A x, y \in 1..M, z, w \in 1..T : MeetAt(n, x, z) = MeetAt(n, y, w) => x = y /\ z = w
            BY <1>1, Zenon DEF CircleIsFair
        <3>2. MeetAt(n, q, u) = MeetAt(n, r, t)
            BY <2>3, <2>4
        <3> QED BY <3>1, <3>2
    <2>6. PICK x \in X : x = <<b, <<c, g>>>> /\ x[1] = b /\ x[2][1] = c /\ x[2][2] = g
        <3>1. PICK y : y = <<c, g>>
            OBVIOUS
        <3>2. PICK x : x = <<b, y>>
            OBVIOUS
        <3>3. y \in (0..C - 1) \X (1..G) /\ y[1] = c /\ y[2] = g
            BY <3>1
        <3>4. x \in X /\ x[1] = b /\ x[2] = y
            BY <1>3, <3>2, <3>3 DEF GamesOf
        <3> QED BY <3>1, <3>2, <3>3, <3>4
    <2>7. h[x] = StaticPlace(M, T, G, c, r, t, g)
        BY <1>8, <2>4, <2>6
    <2> QED BY <2>1, <2>5, <2>7
<1>12. PICK P, Q : P = { i \in DOMAIN tnMatches : tnMatches[i].one = a } /\ Q = { i \in DOMAIN tnMatches : tnMatches[i].two = a }
    OBVIOUS
<1>13. Cardinality(P) = Cardinality(Y)
    <2>1. PICK f : f = [x \in Y |-> h[x]]
        OBVIOUS
    <2>2. f \in [Y -> P]
        BY <1>4, <1>9, <1>12, <2>1
    <2>3. \A x, y \in Y : f[x] = f[y] => x = y
        BY <1>4, <1>10, <2>1
    <2>4. \A z \in P : \E x \in Y : f[x] = z
        BY <1>4, <1>9, <1>11, <1>12, <2>1
    <2> QED BY <1>5, <2>2, <2>3, <2>4, SameCount DEF SplitsEvenly
<1>14. Cardinality(Q) = Cardinality(X \ Y)
    <2>1. PICK f, Z : Z = X \ Y /\ f = [x \in Z |-> h[x]]
        OBVIOUS
    <2>2. f \in [Z -> Q]
        BY <1>4, <1>9, <1>12, <2>1
    <2>3. \A x, y \in Z : f[x] = f[y] => x = y
        BY <1>4, <1>10, <2>1
    <2>4. \A z \in Q : \E x \in Z : f[x] = z
        BY <1>4, <1>9, <1>11, <1>12, <2>1
    <2>5. IsFiniteSet(Z)
        BY <1>5, <2>1 DEF SplitsEvenly
    <2>6. Cardinality(Q) = Cardinality(Z)
        BY <2>2, <2>3, <2>4, <2>5, SameCount
    <2> QED BY <2>1, <2>6
<1>15. Sits(a, 1) = Cardinality(P) /\ Sits(a, 2) = Cardinality(Q)
    <2>1. P = { i \in DOMAIN tnMatches : a = IF 1 = 1 THEN tnMatches[i].one ELSE tnMatches[i].two }
        BY <1>12
    <2>2. Q = { i \in DOMAIN tnMatches : a = IF 2 = 1 THEN tnMatches[i].one ELSE tnMatches[i].two }
        BY <1>12
    <2> QED BY <2>1, <2>2 DEF Sits
<1>16. PICK p \in Nat, q \in Nat : p = Sits(a, 1) /\ q = Sits(a, 2) /\ p <= q + 1 /\ q <= p + 1
    BY <1>5, <1>13, <1>14, <1>15 DEF SplitsEvenly
<1> QED BY <1>16 DEF AbsDiff

\* So a static schedule is complete and fair.
LEMMA StaticSound ==
    ASSUME NEW n, NEW M, NEW T, NEW C, NEW G, StaticDone(n, M, T, C, G), tnOutcome = "scheduled"
    PROVE  ScheduleTypeOK /\ NoDoubleBooking /\ StaticIsComplete
<1>1. n = tnSpec.n /\ C = tnSpec.cycles /\ G = tnSpec.games /\ T = n \div 2
    BY DEF StaticDone
<1>2. NoDoubleBooking
    BY StaticBooking
<1>3. StaticIsComplete
    <2>1. \A a \in 1..n : \A b \in 1..n \ {a} : Cardinality(Meetings(a, b)) = C * G
        BY StaticMeetings
    <2>2. \A a \in 1..n : Cardinality({ x \in tnByes : x.entrant = a }) = IF n % 2 = 0 THEN 0 ELSE C
        BY StaticRests
    <2>3. \A a \in 1..n : AbsDiff(Sits(a, 1), Sits(a, 2)) <= 1
        BY StaticSeats
    <2> QED BY <1>1, <2>1, <2>2, <2>3, Zenon DEF StaticIsComplete, Entrants
<1>4. ASSUME NEW i \in DOMAIN tnMatches
      PROVE  /\ {tnMatches[i].one, tnMatches[i].two} \subseteq Entrants(n)
             /\ tnMatches[i].profile \in 0..tnSpec.profiles - 1
             /\ tnMatches[i].table \in 1..n \div 2 /\ tnMatches[i].game \in 1..G
    <2>1. PICK c \in 0..C - 1, r \in 1..M, t \in 1..T, g \in 1..G : MatchIsFair(tnMatches[i], tnSpec, M, c, r, t, g)
        BY StaticAt
    <2>2. /\ tnMatches[i].one \in 1..n /\ tnMatches[i].two \in 1..n /\ tnMatches[i].table = t /\ tnMatches[i].game = g
          /\ tnMatches[i].profile \in 0..tnSpec.profiles - 1
        BY <1>1, <2>1, Zenon DEF MatchIsFair
    <2> QED BY <1>1, <2>2 DEF Entrants
<1>5. ScheduleTypeOK
    BY <1>1, <1>4, Zenon DEF ScheduleTypeOK
<1> QED BY <1>2, <1>3, <1>5

-----------------------------------------------------------------------------
(* Schedules: the order of a Swiss round *)

\* Everyone of E is in the list, once.
Lineup(s, E) ==
    /\ s \in Seq(E)
    /\ \A i, j \in 1..Len(s) : s[i] = s[j] => i = j
    /\ \A e \in E : \E i \in 1..Len(s) : s[i] = e

\* Those ahead of e.
AheadOf(e, n, standing) == { f \in Entrants(n) : Ahead(f, e, standing) }

\* Of two entrants one is ahead, and has fewer ahead.
LEMMA FewerAhead ==
    ASSUME NEW n \in Nat, NEW standing \in [1..n -> Int], NEW a \in 1..n, NEW b \in 1..n, Ahead(a, b, standing)
    PROVE  Cardinality(AheadOf(a, n, standing)) < Cardinality(AheadOf(b, n, standing))
<1>1. IsFiniteSet(1..n)
    BY CountTo
<1>2. PICK A, B : A = AheadOf(a, n, standing) /\ B = AheadOf(b, n, standing)
    OBVIOUS
<1>3. A \in SUBSET (1..n) /\ B \in SUBSET (1..n)
    BY <1>2 DEF AheadOf, Entrants
<1>4. IsFiniteSet(A) /\ IsFiniteSet(B)
    BY <1>1, <1>3, FS_Subset
<1>5. a \notin A
    BY <1>2 DEF AheadOf, Ahead
<1>6. a \in B
    BY <1>2 DEF AheadOf, Entrants
<1>7. ASSUME NEW f \in A
      PROVE  f \in B
    <2>1. f \in 1..n /\ Ahead(f, a, standing)
        BY <1>2 DEF AheadOf, Entrants
    <2>2. standing[f] \in Int /\ standing[a] \in Int /\ standing[b] \in Int
        BY <2>1
    <2>3. Ahead(f, b, standing)
        BY <2>1, <2>2 DEF Ahead
    <2> QED BY <1>2, <2>1, <2>3 DEF AheadOf, Entrants
<1>8. PICK D : D = A \cup {a}
    OBVIOUS
<1>9. IsFiniteSet(D) /\ Cardinality(D) = Cardinality(A) + 1
    BY <1>4, <1>5, <1>8, FS_AddElement
<1>10. D \in SUBSET B
    BY <1>6, <1>7, <1>8
<1>11. Cardinality(D) <= Cardinality(B)
    BY <1>4, <1>10, FS_Subset
<1>12. Cardinality(A) \in Nat /\ Cardinality(B) \in Nat
    BY <1>4, FS_CardinalityType
<1> QED BY <1>2, <1>9, <1>11, <1>12

\* Every place is that of one entrant.
LEMMA PlacesOfEntrants ==
    ASSUME NEW n \in Nat, NEW standing \in [1..n -> Int]
    PROVE  /\ \A e \in 1..n : Cardinality(AheadOf(e, n, standing)) \in 0..n - 1
           /\ \A e, f \in 1..n : Cardinality(AheadOf(e, n, standing)) = Cardinality(AheadOf(f, n, standing)) => e = f
           /\ \A i \in 1..n : \E e \in 1..n : Cardinality(AheadOf(e, n, standing)) = i - 1
<1>1. IsFiniteSet(1..n) /\ Cardinality(1..n) = n /\ IsFiniteSet(0..n - 1) /\ Cardinality(0..n - 1) = n
    BY CountTo
<1>2. PICK f : f = [e \in 1..n |-> Cardinality(AheadOf(e, n, standing))]
    OBVIOUS
<1>3. ASSUME NEW e \in 1..n
      PROVE  f[e] \in 0..n - 1
    <2>1. PICK A : A = AheadOf(e, n, standing)
        OBVIOUS
    <2>2. PICK D : D = 1..n \ {e}
        OBVIOUS
    <2>3. e \notin A /\ A \subseteq 1..n
        BY <2>1 DEF AheadOf, Ahead, Entrants
    <2>4. A \in SUBSET D
        BY <2>2, <2>3
    <2>5. IsFiniteSet(D) /\ Cardinality(D) = n - 1
        BY <1>1, <2>2, FS_RemoveElement
    <2>6. IsFiniteSet(A) /\ Cardinality(A) <= n - 1
        BY <2>4, <2>5, FS_Subset
    <2>7. Cardinality(A) \in Nat
        BY <2>6, FS_CardinalityType
    <2> QED BY <1>2, <2>1, <2>6, <2>7
<1>4. ASSUME NEW d \in 1..n, NEW e \in 1..n, f[d] = f[e]
      PROVE  d = e
    <2>1. f[d] = Cardinality(AheadOf(d, n, standing)) /\ f[e] = Cardinality(AheadOf(e, n, standing))
        BY <1>2
    <2>2. PICK x \in Int : x = Cardinality(AheadOf(d, n, standing)) /\ x = Cardinality(AheadOf(e, n, standing))
        <3>1. f[d] \in Int
            BY <1>3
        <3> QED BY <1>4, <2>1, <3>1
    <2>3. ~ Ahead(d, e, standing) /\ ~ Ahead(e, d, standing)
        <3>1. ASSUME Ahead(d, e, standing)
              PROVE  FALSE
            <4>1. Cardinality(AheadOf(d, n, standing)) < Cardinality(AheadOf(e, n, standing))
                BY <3>1, FewerAhead
            <4>2. x < x
                BY <2>2, <4>1
            <4> QED BY <4>2
        <3>2. ASSUME Ahead(e, d, standing)
              PROVE  FALSE
            <4>1. Cardinality(AheadOf(e, n, standing)) < Cardinality(AheadOf(d, n, standing))
                BY <3>2, FewerAhead
            <4>2. x < x
                BY <2>2, <4>1
            <4> QED BY <4>2
        <3> QED BY <3>1, <3>2
    <2> QED BY <2>3 DEF Ahead
<1>5. f \in Injection(1..n, 0..n - 1)
    <2>1. f \in [1..n -> 0..n - 1]
        BY <1>2, <1>3
    <2> QED BY <1>4, <2>1 DEF Injection, IsInjective
<1>6. f \in Surjection(1..n, 0..n - 1)
    BY <1>1, <1>5, FS_Injection
<1>7. ASSUME NEW i \in 1..n
      PROVE  \E e \in 1..n : f[e] = i - 1
    <2>1. PICK k \in 0..n - 1 : k = i - 1
        OBVIOUS
    <2>2. \E e \in 1..n : f[e] = k
        BY <1>6 DEF Surjection
    <2> QED BY <2>1, <2>2
<1> QED BY <1>2, <1>3, <1>4, <1>7

\* The order lines everyone up.
LEMMA OrderIsLineup ==
    ASSUME NEW n \in Nat, NEW standing \in [1..n -> Int], NEW s, s = ordered_swiss_entrants(n, standing)
    PROVE  Lineup(s, 1..n) /\ Len(s) = n
<1>1. s = [i \in 1..n |-> CHOOSE e \in 1..n : Cardinality(AheadOf(e, n, standing)) = i - 1]
    BY DEF ordered_swiss_entrants, AheadOf, Entrants
<1>2. ASSUME NEW i \in 1..n
      PROVE  s[i] \in 1..n /\ Cardinality(AheadOf(s[i], n, standing)) = i - 1
    <2>1. \E e \in 1..n : Cardinality(AheadOf(e, n, standing)) = i - 1
        BY PlacesOfEntrants
    <2> QED BY <1>1, <2>1
<1>3. s \in [1..n -> 1..n]
    BY <1>1, <1>2
<1>4. s \in Seq(1..n) /\ Len(s) = n
    BY <1>3
<1>5. ASSUME NEW i \in 1..n, NEW j \in 1..n, s[i] = s[j]
      PROVE  i = j
    BY <1>2, <1>5
<1>6. ASSUME NEW e \in 1..n
      PROVE  \E i \in 1..n : s[i] = e
    <2>1. PICK k \in 0..n - 1 : k = Cardinality(AheadOf(e, n, standing))
        BY PlacesOfEntrants
    <2>2. PICK i \in 1..n : i - 1 = k
        <3>1. k + 1 \in 1..n /\ (k + 1) - 1 = k
            OBVIOUS
        <3> QED BY <3>1
    <2>3. s[i] \in 1..n /\ Cardinality(AheadOf(s[i], n, standing)) = Cardinality(AheadOf(e, n, standing))
        BY <1>2, <2>1, <2>2
    <2>4. s[i] = e
        BY <2>3, PlacesOfEntrants
    <2> QED BY <2>4
<1> QED BY <1>4, <1>5, <1>6 DEF Lineup

\* A sequence without its i-th element.
LEMMA RemoveAtFacts ==
    ASSUME NEW S, NEW s \in Seq(S), NEW i \in 1..Len(s)
    PROVE  /\ RemoveAt(s, i) \in Seq(S) /\ Len(RemoveAt(s, i)) = Len(s) - 1
           /\ \A j \in 1..Len(s) - 1 : RemoveAt(s, i)[j] = IF j < i THEN s[j] ELSE s[j + 1]
<1>1. PICK m \in Nat : m = Len(s)
    OBVIOUS
<1>2. PICK a, b : a = SubSeq(s, 1, i - 1) /\ b = SubSeq(s, i + 1, m)
    OBVIOUS
<1>3. a \in Seq(S) /\ Len(a) = i - 1 /\ \A j \in 1..i - 1 : a[j] = s[j]
    BY <1>1, <1>2
<1>4. b \in Seq(S) /\ Len(b) = m - i /\ \A j \in 1..m - i : b[j] = s[i + j]
    BY <1>1, <1>2
<1>5. RemoveAt(s, i) = a \o b
    BY <1>1, <1>2 DEF RemoveAt
<1>6. /\ a \o b \in Seq(S) /\ Len(a \o b) = m - 1
      /\ \A j \in 1..i - 1 : (a \o b)[j] = a[j]
      /\ \A j \in 1..m - i : (a \o b)[(i - 1) + j] = b[j]
    <2>1. PICK p \in Nat, q \in Nat : p = Len(a) /\ q = Len(b)
        BY <1>3, <1>4
    <2>2. /\ a \o b \in Seq(S) /\ Len(a \o b) = p + q
          /\ \A j \in 1..p : (a \o b)[j] = a[j]
          /\ \A j \in 1..q : (a \o b)[p + j] = b[j]
        <3>1. a \in Seq(S) /\ b \in Seq(S)
            BY <1>3, <1>4
        <3>2. a \o b \in Seq(S) /\ Len(a \o b) = Len(a) + Len(b)
            BY <3>1, JoinedByIndex
        <3>3. \A j \in 1..Len(a) : (a \o b)[j] = a[j]
            BY <3>1, JoinedByIndex
        <3>4. \A j \in 1..Len(b) : (a \o b)[Len(a) + j] = b[j]
            BY <3>1, JoinedByIndex
        <3> QED BY <2>1, <3>2, <3>3, <3>4
    <2>3. p = i - 1 /\ q = m - i
        BY <1>3, <1>4, <2>1
    <2>4. p + q = m - 1
        BY <1>1, <2>3
    <2> QED BY <2>2, <2>3, <2>4
<1>7. ASSUME NEW j \in 1..m - 1
      PROVE  (a \o b)[j] = IF j < i THEN s[j] ELSE s[j + 1]
    <2>1. CASE j < i
        BY <1>3, <1>6, <2>1
    <2>2. CASE ~(j < i)
        <3>1. PICK k \in 1..m - i : j = (i - 1) + k
            <4>1. j - (i - 1) \in 1..m - i /\ j = (i - 1) + (j - (i - 1))
                BY <1>1, <2>2
            <4> QED BY <4>1
        <3>2. i + k = j + 1
            BY <3>1
        <3>3. (a \o b)[j] = s[i + k]
            BY <1>4, <1>6, <3>1
        <3> QED BY <2>2, <3>2, <3>3
    <2> QED BY <2>1, <2>2
<1> QED BY <1>1, <1>5, <1>6, <1>7

\* Without one entrant the others are still lined up.
LEMMA LineupWithout ==
    ASSUME NEW E, NEW s, Lineup(s, E), NEW i \in 1..Len(s), NEW r, r = RemoveAt(s, i)
    PROVE  Lineup(r, E \ {s[i]}) /\ Len(r) = Len(s) - 1 /\ Len(s) \in Nat
<1>1. s \in Seq(E) /\ (\A k, j \in 1..Len(s) : s[k] = s[j] => k = j) /\ \A e \in E : \E k \in 1..Len(s) : s[k] = e
    BY DEF Lineup
<1>2. PICK m \in Nat : m = Len(s)
    BY <1>1
<1>3. r \in Seq(E) /\ Len(r) = m - 1 /\ \A j \in 1..m - 1 : r[j] = IF j < i THEN s[j] ELSE s[j + 1]
    <2>1. s \in Seq(E)
        BY <1>1
    <2>2. /\ r \in Seq(E) /\ Len(r) = Len(s) - 1
          /\ \A j \in 1..Len(s) - 1 : r[j] = IF j < i THEN s[j] ELSE s[j + 1]
        BY <2>1, RemoveAtFacts
    <2> QED BY <1>2, <2>2
<1>4. ASSUME NEW j \in 1..m - 1
      PROVE  \E k \in 1..m : r[j] = s[k] /\ k /= i /\ (k = j \/ k = j + 1) /\ (k < i <=> j < i) /\ (k = j <=> j < i)
    <2>1. CASE j < i
        BY <1>2, <1>3, <2>1
    <2>2. CASE ~(j < i)
        <3>1. j + 1 \in 1..m /\ j + 1 /= i /\ ~(j + 1 < i) /\ j + 1 /= j
            BY <1>2, <2>2
        <3>2. r[j] = s[j + 1]
            BY <1>3, <2>2
        <3> QED BY <2>2, <3>1, <3>2
    <2> QED BY <2>1, <2>2
<1>5. ASSUME NEW j \in 1..m - 1
      PROVE  r[j] \in E \ {s[i]}
    <2>1. PICK k \in 1..m : r[j] = s[k] /\ k /= i
        BY <1>4
    <2>2. s[k] \in E
        BY <1>1, <1>2
    <2> QED BY <1>1, <1>2, <2>1, <2>2
<1>6. r \in Seq(E \ {s[i]})
    <2>1. r \in [1..m - 1 -> E \ {s[i]}]
        BY <1>3, <1>5
    <2>2. m - 1 \in Nat
        BY <1>2
    <2> QED BY <2>1, <2>2
<1>7. ASSUME NEW j \in 1..m - 1, NEW k \in 1..m - 1, r[j] = r[k]
      PROVE  j = k
    <2>1. PICK x \in 1..m : r[j] = s[x] /\ (x = j \/ x = j + 1) /\ (x < i <=> j < i) /\ (x = j <=> j < i)
        BY <1>4
    <2>2. PICK y \in 1..m : r[k] = s[y] /\ (y = k \/ y = k + 1) /\ (y < i <=> k < i) /\ (y = k <=> k < i)
        BY <1>4
    <2>3. x = y
        BY <1>1, <1>2, <1>7, <2>1, <2>2
    <2> QED BY <1>2, <2>1, <2>2, <2>3
<1>8. ASSUME NEW e \in E \ {s[i]}
      PROVE  \E j \in 1..m - 1 : r[j] = e
    <2>1. PICK k \in 1..m : s[k] = e /\ k /= i
        BY <1>1, <1>2
    <2>2. CASE k < i
        <3>1. k \in 1..m - 1
            BY <1>2, <2>2
        <3> QED BY <1>3, <2>1, <2>2, <3>1
    <2>3. CASE ~(k < i)
        <3>1. k - 1 \in 1..m - 1 /\ ~(k - 1 < i) /\ (k - 1) + 1 = k
            BY <1>2, <2>1, <2>3
        <3>2. r[k - 1] = s[k]
            BY <1>3, <3>1
        <3> QED BY <2>1, <3>1, <3>2
    <2> QED BY <2>2, <2>3
<1> QED BY <1>2, <1>3, <1>6, <1>7, <1>8 DEF Lineup

-----------------------------------------------------------------------------
(* Schedules: the search for a pairing without rematches *)

\* One step of the search, with the pairings of shorter lists in f.
AfterPair(s, i) == RemoveAt(Tail(s), i - 1)
GoodPartners(f, s, prior) ==
    { i \in 2..Len(s) : PairSet(s[1], s[i]) \notin prior /\ NoPairing \notin ToSet(f[AfterPair(s, i)]) }
PairStep(f, s, prior) ==
    IF s = <<>> THEN <<>>
    ELSE IF GoodPartners(f, s, prior) = {} THEN <<NoPairing>>
    ELSE << <<s[1], s[Min(GoodPartners(f, s, prior))]>> >> \o f[AfterPair(s, Min(GoodPartners(f, s, prior)))]
PairsUpto(f, D, prior) == f = [s \in D |-> PairStep(f, s, prior)]

\* The bounded sequences are the short ones.
LEMMA BoundedSeqFacts ==
    ASSUME NEW E, NEW m \in Nat
    PROVE  \A s : s \in BoundedSeq(E, m) <=> (s \in Seq(E) /\ Len(s) <= m)
<1>1. ASSUME NEW s \in BoundedSeq(E, m)
      PROVE  s \in Seq(E) /\ Len(s) <= m
    <2>1. PICK k \in 0..m : s \in [1..k -> E]
        BY DEF BoundedSeq, SeqOf
    <2>2. k \in Nat /\ k <= m
        OBVIOUS
    <2> QED BY <2>1, <2>2
<1>2. ASSUME NEW s, s \in Seq(E), Len(s) <= m
      PROVE  s \in BoundedSeq(E, m)
    <2>1. PICK k : k = Len(s)
        OBVIOUS
    <2>2. s \in [1..k -> E] /\ k \in 0..m
        BY <1>2, <2>1
    <2> QED BY <2>2 DEF BoundedSeq, SeqOf
<1> QED BY <1>1, <1>2

\* The tail goes without the first.
LEMMA TailFacts ==
    ASSUME NEW E, NEW s \in Seq(E), s /= <<>>
    PROVE  /\ Tail(s) = RemoveAt(s, 1) /\ Tail(s) \in Seq(E) /\ Len(Tail(s)) = Len(s) - 1 /\ 1 \in 1..Len(s)
           /\ \A i \in 2..Len(s) : i - 1 \in 1..Len(Tail(s)) /\ Tail(s)[i - 1] = s[i]
<1>1. PICK m \in Nat : m = Len(s) /\ m >= 1
    OBVIOUS
<1>2. Tail(s) = [j \in 1..m - 1 |-> s[j + 1]] /\ Tail(s) \in Seq(E) /\ Len(Tail(s)) = m - 1
    <2>1. Tail(s) \in Seq(E) /\ Len(Tail(s)) = m - 1
        BY <1>1
    <2>2. \A j \in 1..m - 1 : Tail(s)[j] = s[j + 1]
        BY <1>1
    <2>3. DOMAIN Tail(s) = 1..m - 1
        BY <2>1
    <2>4. PICK t : t = Tail(s)
        OBVIOUS
    <2>5. t \in [1..m - 1 -> E]
        <3>1. t \in Seq(E) /\ Len(t) = m - 1
            BY <2>1, <2>4
        <3>2. t \in [1..Len(t) -> E]
            BY <3>1
        <3> QED BY <3>1, <3>2
    <2>6. t = [j \in 1..m - 1 |-> s[j + 1]]
        BY <2>2, <2>4, <2>5
    <2> QED BY <2>1, <2>4, <2>6
<1>3. 1 \in 1..Len(s)
    BY <1>1
<1>4. PICK r : r = RemoveAt(s, 1)
    OBVIOUS
<1>5. /\ r \in Seq(E) /\ Len(r) = Len(s) - 1
      /\ \A j \in 1..Len(s) - 1 : r[j] = IF j < 1 THEN s[j] ELSE s[j + 1]
    BY <1>3, <1>4, RemoveAtFacts
<1>6. \A j \in 1..m - 1 : r[j] = s[j + 1]
    BY <1>1, <1>5
<1>7. r = [j \in 1..m - 1 |-> s[j + 1]]
    BY <1>1, <1>5, <1>6
<1>8. ASSUME NEW i \in 2..m
      PROVE  i - 1 \in 1..m - 1 /\ Tail(s)[i - 1] = s[i]
    <2>1. i - 1 \in 1..m - 1 /\ (i - 1) + 1 = i
        BY <1>1
    <2> QED BY <1>2, <2>1
<1> QED BY <1>1, <1>2, <1>3, <1>4, <1>7, <1>8

\* Taking a pair out of a list leaves two fewer.
LEMMA AfterPairFacts ==
    ASSUME NEW E, NEW s \in Seq(E), NEW i \in 2..Len(s)
    PROVE  AfterPair(s, i) \in Seq(E) /\ Len(AfterPair(s, i)) = Len(s) - 2 /\ Len(s) \in Nat
<1>1. Len(s) \in Nat /\ s /= <<>>
    OBVIOUS
<1>2. PICK t : t = Tail(s)
    OBVIOUS
<1>3. t \in Seq(E) /\ Len(t) = Len(s) - 1 /\ i - 1 \in 1..Len(t)
    BY <1>1, <1>2, TailFacts
<1>4. PICK k : k = i - 1
    OBVIOUS
<1>5. RemoveAt(t, k) \in Seq(E) /\ Len(RemoveAt(t, k)) = Len(t) - 1
    BY <1>3, <1>4, RemoveAtFacts
<1>6. AfterPair(s, i) = RemoveAt(t, k)
    BY <1>2, <1>4, Zenon DEF AfterPair
<1>7. Len(RemoveAt(t, k)) = Len(s) - 2
    BY <1>1, <1>3, <1>5
<1> QED BY <1>1, <1>5, <1>6, <1>7, Zenon

\* Taking a pair out of a lineup leaves the lineup of the others.
LEMMA AfterPairLineup ==
    ASSUME NEW E, NEW s, Lineup(s, E), NEW i \in 2..Len(s)
    PROVE  /\ Lineup(AfterPair(s, i), E \ {s[1], s[i]}) /\ Len(AfterPair(s, i)) = Len(s) - 2 /\ Len(s) \in Nat
           /\ s[1] \in E /\ s[i] \in E /\ s[1] /= s[i]
<1>1. s \in Seq(E) /\ (\A k, j \in 1..Len(s) : s[k] = s[j] => k = j)
    BY DEF Lineup
<1>2. Len(s) \in Nat /\ s /= <<>> /\ 1 \in 1..Len(s) /\ i \in 1..Len(s) /\ i /= 1
    BY <1>1
<1>3. PICK t : t = Tail(s)
    OBVIOUS
<1>4. t = RemoveAt(s, 1) /\ i - 1 \in 1..Len(t) /\ t[i - 1] = s[i]
    BY <1>1, <1>2, <1>3, TailFacts
<1>5. Lineup(t, E \ {s[1]}) /\ Len(t) = Len(s) - 1
    BY <1>2, <1>4, LineupWithout
<1>6. PICK k \in 1..Len(t) : k = i - 1
    BY <1>4
<1>7. PICK r, F : r = RemoveAt(t, k) /\ F = E \ {s[1]}
    OBVIOUS
<1>8. Lineup(r, F \ {t[k]}) /\ Len(r) = Len(t) - 1
    BY <1>5, <1>7, LineupWithout
<1>9. F \ {t[k]} = E \ {s[1], s[i]} /\ r = AfterPair(s, i)
    BY <1>3, <1>4, <1>6, <1>7 DEF AfterPair
<1>10. s[1] \in E /\ s[i] \in E /\ s[1] /= s[i]
    BY <1>1, <1>2
<1>11. Len(r) = Len(s) - 2
    BY <1>2, <1>5, <1>8
<1>12. Lineup(AfterPair(s, i), E \ {s[1], s[i]})
    BY <1>8, <1>9, Zenon
<1>13. Len(AfterPair(s, i)) = Len(s) - 2
    BY <1>9, <1>11, Zenon
<1> QED BY <1>2, <1>10, <1>12, <1>13

\* A step looks only at shorter lists.
LEMMA StepIsLocal ==
    ASSUME NEW f, NEW h, NEW s, NEW prior, \A i \in 2..Len(s) : f[AfterPair(s, i)] = h[AfterPair(s, i)]
    PROVE  PairStep(f, s, prior) = PairStep(h, s, prior)
<1>1. PICK G : G = GoodPartners(f, s, prior)
    OBVIOUS
<1>2. G = GoodPartners(h, s, prior)
    BY <1>1 DEF GoodPartners
<1>3. CASE G = {}
    BY <1>1, <1>2, <1>3 DEF PairStep
<1>4. CASE G /= {}
    <2>1. G \subseteq 2..Len(s)
        BY <1>1 DEF GoodPartners
    <2>2. PICK k : k = Min(G)
        OBVIOUS
    <2>3. k \in 2..Len(s)
        <3>1. G \subseteq Nat
            BY <2>1
        <3>2. PICK x \in G : \A y \in G : x <= y
            BY <1>4, <3>1, LeastExists
        <3>3. k \in G
            BY <2>2, <3>2 DEF Min
        <3> QED BY <2>1, <3>3
    <2>4. f[AfterPair(s, k)] = h[AfterPair(s, k)]
        BY <2>3
    <2> QED BY <1>1, <1>2, <2>2, <2>4, Zenon DEF PairStep
<1> QED BY <1>3, <1>4

\* The search is defined.
LEMMA PairsExist ==
    ASSUME NEW E, NEW prior, NEW m \in Nat
    PROVE  \E f : PairsUpto(f, BoundedSeq(E, m), prior)
<1> SUFFICES ASSUME ~ \E f : PairsUpto(f, BoundedSeq(E, m), prior)
             PROVE  FALSE
    OBVIOUS
<1> DEFINE Bad == { k \in Nat : ~ \E f : PairsUpto(f, BoundedSeq(E, k), prior) }
<1>1. PICK n \in Bad : \A k \in Bad : n <= k
    BY LeastExists
<1>2. n \in Nat
    OBVIOUS
<1>3. PICK f : \A s \in BoundedSeq(E, n) : Len(s) < n => f[s] = PairStep(f, s, prior)
    <2>1. CASE n = 0
        <3>1. \A s \in BoundedSeq(E, n) : ~(Len(s) < n)
            BY <2>1, BoundedSeqFacts
        <3> QED BY <3>1
    <2>2. CASE n /= 0
        <3>1. n - 1 \in Nat /\ ~(n <= n - 1)
            BY <1>2, <2>2
        <3>2. PICK f : PairsUpto(f, BoundedSeq(E, n - 1), prior)
            BY <1>1, <3>1
        <3>3. ASSUME NEW s \in BoundedSeq(E, n), Len(s) < n
              PROVE  s \in BoundedSeq(E, n - 1)
            <4>1. s \in Seq(E)
                BY <1>2, BoundedSeqFacts
            <4>2. Len(s) <= n - 1
                BY <1>2, <3>3, <4>1
            <4> QED BY <3>1, <4>1, <4>2, BoundedSeqFacts
        <3>4. \A s \in BoundedSeq(E, n) : Len(s) < n => f[s] = PairStep(f, s, prior)
            BY <3>2, <3>3, Zenon DEF PairsUpto
        <3> QED BY <3>4
    <2> QED BY <2>1, <2>2
<1>4. PICK h : h = [s \in BoundedSeq(E, n) |-> IF Len(s) < n THEN f[s] ELSE PairStep(f, s, prior)]
    OBVIOUS
<1>5. ASSUME NEW s \in BoundedSeq(E, n)
      PROVE  h[s] = PairStep(h, s, prior)
    <2>1. h[s] = PairStep(f, s, prior)
        BY <1>3, <1>4
    <2>2. s \in Seq(E) /\ Len(s) <= n
        BY <1>2, BoundedSeqFacts
    <2>3. ASSUME NEW i \in 2..Len(s)
          PROVE  f[AfterPair(s, i)] = h[AfterPair(s, i)]
        <3>1. PICK t : t = AfterPair(s, i)
            OBVIOUS
        <3>2. t \in Seq(E) /\ Len(t) < n /\ Len(t) <= n
            <4>1. t \in Seq(E) /\ Len(t) = Len(s) - 2 /\ Len(s) \in Nat
                BY <2>2, <3>1, AfterPairFacts
            <4> QED BY <1>2, <2>2, <4>1
        <3>3. t \in BoundedSeq(E, n)
            BY <1>2, <3>2, BoundedSeqFacts
        <3> QED BY <1>4, <3>1, <3>2, <3>3
    <2>4. PairStep(f, s, prior) = PairStep(h, s, prior)
        BY <2>3, StepIsLocal
    <2> QED BY <2>1, <2>4
<1>6. PairsUpto(h, BoundedSeq(E, n), prior)
    BY <1>4, <1>5, Zenon DEF PairsUpto
<1> QED BY <1>6

\* f holds the results for lists of up to m of A.
Searched(f, A, m, prior) == \A s \in Seq(A) : Len(s) <= m => f[s] = PairStep(f, s, prior)

\* So the result is the last of its steps.
LEMMA SearchFacts ==
    ASSUME NEW E, NEW ordered, Lineup(ordered, E), NEW prior
    PROVE  \E f : /\ pair_without_rematches(ordered, prior) = f[ordered]
                  /\ Searched(f, E, Len(ordered), prior)
<1>1. PICK D : D = BoundedSeq(ToSet(ordered), Len(ordered))
    OBVIOUS
<1>2. PICK f : f = CHOOSE g : PairsUpto(g, D, prior)
    OBVIOUS
<1>3. pair_without_rematches(ordered, prior) = f[ordered]
    BY <1>1, <1>2 DEF pair_without_rematches, PairsUpto, PairStep, GoodPartners, AfterPair
<1>4. ordered \in Seq(E) /\ Len(ordered) \in Nat /\ ToSet(ordered) = E
    <2>1. ordered \in Seq(E) /\ \A e \in E : \E i \in 1..Len(ordered) : ordered[i] = e
        BY DEF Lineup
    <2>2. DOMAIN ordered = 1..Len(ordered) /\ Len(ordered) \in Nat /\ \A i \in 1..Len(ordered) : ordered[i] \in E
        BY <2>1
    <2>3. ToSet(ordered) = E
        BY <2>1, <2>2 DEF ToSet
    <2> QED BY <2>1, <2>2, <2>3
<1>5. PairsUpto(f, D, prior)
    <2>1. \E g : PairsUpto(g, D, prior)
        BY <1>1, <1>4, PairsExist
    <2> QED BY <1>2, <2>1, Zenon
<1>6. ASSUME NEW s \in Seq(E), Len(s) <= Len(ordered)
      PROVE  f[s] = PairStep(f, s, prior)
    <2>1. s \in D
        BY <1>1, <1>4, <1>6, BoundedSeqFacts
    <2> QED BY <1>5, <2>1, Zenon DEF PairsUpto
<1> QED BY <1>3, <1>6 DEF Searched

\* ps are T tables of two of E each, nobody at two of them.
PairsOff(ps, E, T) ==
    /\ T \in Nat /\ ps \in Seq(E \X E) /\ Len(ps) = T
    /\ \A t \in 1..T : ps[t][1] /= ps[t][2]
    /\ \A t, u \in 1..T : t /= u => {ps[t][1], ps[t][2]} \cap {ps[u][1], ps[u][2]} = {}
FreshFor(ps, T, prior) == \A t \in 1..T : PairSet(ps[t][1], ps[t][2]) \notin prior

\* What the search finds for a list.
SearchOK(f, s, E, prior) ==
    /\ NoPairing \notin ToSet(f[s]) =>
          \E T \in Nat : Len(s) = 2 * T /\ PairsOff(f[s], E, T) /\ FreshFor(f[s], T, prior)
    /\ NoPairing \in ToSet(f[s]) => FreshPairings(E, prior) = {}

\* A table is added in front.
LEMMA OneMoreTable ==
    ASSUME NEW E, NEW a \in E, NEW b \in E, a /= b, NEW T, NEW ps, PairsOff(ps, E \ {a, b}, T), NEW prior,
           FreshFor(ps, T, prior), PairSet(a, b) \notin prior, NEW qs, qs = << <<a, b>> >> \o ps
    PROVE  PairsOff(qs, E, T + 1) /\ FreshFor(qs, T + 1, prior)
<1>1. /\ T \in Nat /\ ps \in Seq((E \ {a, b}) \X (E \ {a, b})) /\ Len(ps) = T
      /\ \A t \in 1..T : ps[t][1] /= ps[t][2]
      /\ \A t, u \in 1..T : t /= u => {ps[t][1], ps[t][2]} \cap {ps[u][1], ps[u][2]} = {}
    BY DEF PairsOff
<1>2. PICK P, Q, p, one : P = E \X E /\ Q = (E \ {a, b}) \X (E \ {a, b}) /\ p = <<a, b>> /\ one = <<p>>
    OBVIOUS
<1>3. Q \subseteq P /\ p \in P /\ p[1] = a /\ p[2] = b
    BY <1>2
<1>4. one \in Seq(P) /\ Len(one) = 1 /\ one[1] = p
    BY <1>2, <1>3
<1>5. ps \in Seq(P) /\ \A t \in 1..T : ps[t] \in Q
    BY <1>1, <1>2, <1>3
<1>6. \A t \in 1..T : ps[t][1] \in E \ {a, b} /\ ps[t][2] \in E \ {a, b}
    BY <1>2, <1>5
<1>7. qs \in Seq(P) /\ Len(qs) = T + 1 /\ qs[1] = p /\ \A t \in 1..T : qs[1 + t] = ps[t]
    <2>1. qs = one \o ps
        BY <1>2
    <2>2. one \in Seq(P) /\ ps \in Seq(P)
        BY <1>4, <1>5
    <2>3. one \o ps \in Seq(P) /\ Len(one \o ps) = Len(one) + Len(ps)
        BY <2>2, JoinedByIndex
    <2>4. \A j \in 1..Len(one) : (one \o ps)[j] = one[j]
        BY <2>2, JoinedByIndex
    <2>5. \A j \in 1..Len(ps) : (one \o ps)[Len(one) + j] = ps[j]
        BY <2>2, JoinedByIndex
    <2>6. Len(one \o ps) = T + 1 /\ (one \o ps)[1] = p /\ \A j \in 1..T : (one \o ps)[1 + j] = ps[j]
        BY <1>1, <1>4, <2>3, <2>4, <2>5
    <2> QED BY <2>1, <2>3, <2>6
<1>8. ASSUME NEW t \in 1..T + 1, t /= 1
      PROVE  \E u \in 1..T : t = 1 + u /\ qs[t] = ps[u]
    <2>1. t - 1 \in 1..T /\ t = 1 + (t - 1)
        BY <1>1, <1>8
    <2> QED BY <1>7, <2>1
<1>9. ASSUME NEW t \in 1..T + 1
      PROVE  qs[t][1] /= qs[t][2] /\ PairSet(qs[t][1], qs[t][2]) \notin prior
    <2>1. CASE t = 1
        BY <1>3, <1>7, <2>1
    <2>2. CASE t /= 1
        BY <1>1, <1>8, <2>2 DEF FreshFor
    <2> QED BY <2>1, <2>2
<1>10. ASSUME NEW t \in 1..T + 1, NEW u \in 1..T + 1, t /= u
       PROVE  {qs[t][1], qs[t][2]} \cap {qs[u][1], qs[u][2]} = {}
    <2>1. CASE t = 1
        <3>1. PICK x \in 1..T : qs[u] = ps[x]
            BY <1>8, <1>10, <2>1
        <3> QED BY <1>3, <1>6, <1>7, <2>1, <3>1
    <2>2. CASE u = 1
        <3>1. PICK x \in 1..T : qs[t] = ps[x]
            BY <1>8, <1>10, <2>2
        <3> QED BY <1>3, <1>6, <1>7, <2>2, <3>1
    <2>3. CASE t /= 1 /\ u /= 1
        <3>1. PICK x \in 1..T : t = 1 + x /\ qs[t] = ps[x]
            BY <1>8, <2>3
        <3>2. PICK y \in 1..T : u = 1 + y /\ qs[u] = ps[y]
            BY <1>8, <2>3
        <3>3. x /= y
            BY <1>10, <3>1, <3>2
        <3> QED BY <1>1, <3>1, <3>2, <3>3
    <2> QED BY <2>1, <2>2, <2>3
<1>11. T + 1 \in Nat
    BY <1>1
<1>12. PairsOff(qs, E, T + 1)
    BY <1>2, <1>7, <1>9, <1>10, <1>11, Zenon DEF PairsOff
<1> QED BY <1>9, <1>12, Zenon DEF FreshFor

\* Tables of entrants are no NoPairing.
LEMMA TablesAreReal ==
    ASSUME NEW E, 0 \notin E, NEW T, NEW ps, PairsOff(ps, E, T)
    PROVE  NoPairing \notin ToSet(ps)
<1>1. ps \in Seq(E \X E)
    BY DEF PairsOff
<1>2. ASSUME NEW t \in DOMAIN ps
      PROVE  ps[t] /= NoPairing
    <2>1. PICK p : p = ps[t]
        OBVIOUS
    <2>2. p \in E \X E
        BY <1>1, <2>1
    <2>3. p[1] /= 0
        BY <2>2
    <2> QED BY <2>1, <2>3 DEF NoPairing
<1> QED BY <1>2 DEF ToSet

\* A set of two that holds a.
LEMMA OtherOfTwo ==
    ASSUME NEW E, IsFiniteSet(E), NEW p \in kSubset(2, E), NEW a \in p
    PROVE  \E b \in E \ {a} : p = {a, b}
<1>1. p \in SUBSET E /\ Cardinality(p) = 2
    BY DEF kSubset
<1>2. IsFiniteSet(p)
    BY <1>1, FS_Subset
<1>3. PICK q : q = p \ {a}
    OBVIOUS
<1>4. IsFiniteSet(q) /\ Cardinality(q) = 1
    BY <1>1, <1>2, <1>3, FS_RemoveElement
<1>5. PICK b : q = {b}
    BY <1>4, FS_Singleton
<1> QED BY <1>1, <1>3, <1>5

\* Who is paired is paired with someone new, and the others can be too.
LEMMA FreshOfRest ==
    ASSUME NEW E, IsFiniteSet(E), NEW prior, NEW ps \in FreshPairings(E, prior), NEW a \in E
    PROVE  \E b \in E \ {a} : PairSet(a, b) \notin prior /\ FreshPairings(E \ {a, b}, prior) /= {}
<1>1. /\ ps \in SUBSET (kSubset(2, E) \ prior)
      /\ \A e \in E : \E p \in ps : \A q \in ps : e \in q <=> q = p
    BY DEF FreshPairings
<1>2. PICK p \in ps : \A q \in ps : a \in q <=> q = p
    BY <1>1
<1>3. p \in kSubset(2, E) /\ p \notin prior /\ a \in p
    BY <1>1, <1>2
<1>4. PICK b \in E \ {a} : p = {a, b}
    BY <1>3, OtherOfTwo
<1>5. PICK pb \in ps : \A q \in ps : b \in q <=> q = pb
    BY <1>1
<1>6. pb = p
    BY <1>2, <1>4, <1>5
<1>7. PICK F, rs : F = E \ {a, b} /\ rs = ps \ {p}
    OBVIOUS
<1>8. ASSUME NEW q \in rs
      PROVE  q \in kSubset(2, F) \ prior
    <2>1. q \in ps /\ q /= p
        BY <1>7
    <2>2. a \notin q /\ b \notin q
        BY <1>2, <1>5, <1>6, <2>1
    <2>3. q \in kSubset(2, E) /\ q \notin prior
        BY <1>1, <2>1
    <2>4. q \in SUBSET E /\ Cardinality(q) = 2
        BY <2>3 DEF kSubset
    <2>5. q \in SUBSET F
        BY <1>7, <2>2, <2>4
    <2> QED BY <2>3, <2>4, <2>5 DEF kSubset
<1>9. ASSUME NEW e \in F
      PROVE  \E x \in rs : \A q \in rs : e \in q <=> q = x
    <2>1. e \in E /\ e /= a /\ e /= b
        BY <1>7
    <2>2. PICK x \in ps : \A q \in ps : e \in q <=> q = x
        BY <1>1, <2>1
    <2>3. x /= p
        BY <1>4, <2>1, <2>2
    <2>4. x \in rs /\ \A q \in rs : q \in ps
        BY <1>7, <2>3
    <2> QED BY <2>2, <2>4
<1>10. rs \in FreshPairings(F, prior)
    BY <1>8, <1>9 DEF FreshPairings
<1>11. PairSet(a, b) \notin prior
    BY <1>3, <1>4 DEF PairSet
<1> QED BY <1>4, <1>7, <1>10, <1>11

\* A step of the search is right when those of the shorter lists are.
LEMMA StepIsRight ==
    ASSUME NEW f, NEW s, NEW E, IsFiniteSet(E), 0 \notin E, NEW prior, Lineup(s, E), f[s] = PairStep(f, s, prior),
           \A i \in 2..Len(s) : SearchOK(f, AfterPair(s, i), E \ {s[1], s[i]}, prior)
    PROVE  SearchOK(f, s, E, prior)
<1>0. s \in Seq(E) /\ Len(s) \in Nat /\ (\A e \in E : \E i \in 1..Len(s) : s[i] = e)
    BY DEF Lineup
<1>1. CASE s = <<>>
    <2>1. f[s] = <<>> /\ Len(s) = 0
        BY <1>1 DEF PairStep
    <2>2. NoPairing \notin ToSet(f[s])
        BY <2>1 DEF ToSet
    <2>3. PairsOff(f[s], E, 0) /\ FreshFor(f[s], 0, prior)
        BY <2>1 DEF PairsOff, FreshFor
    <2>4. 0 \in Nat /\ Len(s) = 2 * 0
        BY <2>1
    <2> QED BY <2>2, <2>3, <2>4, Zenon DEF SearchOK
<1>2. CASE s /= <<>>
    <2>1. PICK G : G = GoodPartners(f, s, prior)
        OBVIOUS
    <2>2. CASE G = {}
        <3>1. f[s] = <<NoPairing>>
            BY <1>2, <2>1, <2>2 DEF PairStep
        <3>2. NoPairing \in ToSet(f[s])
            BY <3>1 DEF ToSet
        <3>3. ASSUME NEW ps \in FreshPairings(E, prior)
              PROVE  FALSE
            <4>1. s[1] \in E
                BY <1>0, <1>2
            <4>2. PICK b \in E \ {s[1]} : PairSet(s[1], b) \notin prior /\ FreshPairings(E \ {s[1], b}, prior) /= {}
                BY <4>1, FreshOfRest, ZenonT(60)
            <4>3. PICK i \in 1..Len(s) : s[i] = b
                BY <1>0
            <4>4. i \in 2..Len(s)
                BY <1>0, <4>2, <4>3
            <4>5. SearchOK(f, AfterPair(s, i), E \ {s[1], b}, prior)
                BY <4>3, <4>4
            <4>6. NoPairing \notin ToSet(f[AfterPair(s, i)])
                BY <4>2, <4>5, Zenon DEF SearchOK
            <4>7. i \in G
                BY <2>1, <4>2, <4>3, <4>4, <4>6 DEF GoodPartners
            <4> QED BY <2>2, <4>7
        <3>4. FreshPairings(E, prior) = {}
            BY <3>3
        <3> QED BY <3>2, <3>4, Zenon DEF SearchOK
    <2>3. CASE G /= {}
        <3>1. PICK i : i = Min(G)
            OBVIOUS
        <3>2. i \in G
            <4>1. G \subseteq Nat
                BY <1>0, <2>1 DEF GoodPartners
            <4>2. PICK x \in G : \A y \in G : x <= y
                BY <2>3, <4>1, LeastExists
            <4> QED BY <3>1, <4>2 DEF Min
        <3>3. i \in 2..Len(s) /\ PairSet(s[1], s[i]) \notin prior /\ NoPairing \notin ToSet(f[AfterPair(s, i)])
            BY <2>1, <3>2 DEF GoodPartners
        <3>4. PICK a, b, t, F, ps : a = s[1] /\ b = s[i] /\ t = AfterPair(s, i) /\ F = E \ {a, b} /\ ps = f[t]
            OBVIOUS
        <3>5. Lineup(t, F) /\ Len(t) = Len(s) - 2 /\ a \in E /\ b \in E /\ a /= b
            BY <3>3, <3>4, AfterPairLineup
        <3>6. SearchOK(f, t, F, prior)
            BY <3>3, <3>4
        <3>7. PICK T \in Nat : Len(t) = 2 * T /\ PairsOff(ps, F, T) /\ FreshFor(ps, T, prior)
            BY <3>3, <3>4, <3>6, Zenon DEF SearchOK
        <3>8. PICK qs : qs = << <<a, b>> >> \o ps
            OBVIOUS
        <3>9. f[s] = qs
            BY <1>2, <2>1, <2>3, <3>1, <3>4, <3>8, Zenon DEF PairStep
        <3>10. PairsOff(qs, E, T + 1) /\ FreshFor(qs, T + 1, prior)
            BY <3>3, <3>4, <3>5, <3>7, <3>8, OneMoreTable
        <3>11. T + 1 \in Nat /\ Len(s) = 2 * (T + 1)
            BY <1>0, <3>5, <3>7
        <3>12. NoPairing \notin ToSet(qs)
            BY <3>10, TablesAreReal
        <3> QED BY <3>9, <3>10, <3>11, <3>12, Zenon DEF SearchOK
    <2> QED BY <2>2, <2>3
<1> QED BY <1>1, <1>2

\* The search finds a pairing without rematches exactly when there is one.
LEMMA SearchIsRight ==
    ASSUME NEW A, IsFiniteSet(A), 0 \notin A, NEW f, NEW m \in Nat, NEW prior, Searched(f, A, m, prior),
           NEW s, NEW E, E \subseteq A, Lineup(s, E), Len(s) <= m
    PROVE  SearchOK(f, s, E, prior)
<1> SUFFICES ASSUME ~ SearchOK(f, s, E, prior)
             PROVE  FALSE
    OBVIOUS
<1> DEFINE Wrong(k) == \E t : \E F \in SUBSET A : Lineup(t, F) /\ Len(t) = k /\ k <= m /\ ~ SearchOK(f, t, F, prior)
<1> DEFINE Bad == { k \in Nat : Wrong(k) }
<1>1. Len(s) \in Bad
    <2>1. Len(s) \in Nat
        BY DEF Lineup
    <2> QED BY <2>1
<1>2. PICK k \in Bad : \A j \in Bad : k <= j
    <2>1. Bad \subseteq Nat
        OBVIOUS
    <2> HIDE DEF Bad
    <2> QED BY <1>1, <2>1, LeastExists
<1>3. k \in Nat /\ Wrong(k)
    BY <1>2
<1>4. PICK t : \E F \in SUBSET A : Lineup(t, F) /\ Len(t) = k /\ k <= m /\ ~ SearchOK(f, t, F, prior)
    BY <1>3
<1>9. PICK F \in SUBSET A : Lineup(t, F) /\ Len(t) = k /\ k <= m /\ ~ SearchOK(f, t, F, prior)
    BY <1>4
<1>5. ASSUME NEW i \in 2..Len(t)
      PROVE  SearchOK(f, AfterPair(t, i), F \ {t[1], t[i]}, prior)
    <2>1. PICK r, H : r = AfterPair(t, i) /\ H = F \ {t[1], t[i]}
        OBVIOUS
    <2>2. Lineup(r, H) /\ Len(r) = k - 2
        BY <1>9, <2>1, AfterPairLineup
    <2>3. H \in SUBSET A
        BY <2>1
    <2>4. k - 2 \in Nat /\ k - 2 <= m /\ ~(k <= k - 2)
        BY <1>3, <1>9, <1>5
    <2>5. ~ Wrong(k - 2)
        BY <1>2, <2>4
    <2> QED BY <2>1, <2>2, <2>3, <2>4, <2>5
<1>6. f[t] = PairStep(f, t, prior)
    <2>1. t \in Seq(F)
        BY <1>9 DEF Lineup
    <2>2. F \subseteq A
        OBVIOUS
    <2>3. t \in Seq(A)
        BY <2>1, <2>2, SeqMonotone
    <2> QED BY <1>9, <2>3 DEF Searched
<1>7. IsFiniteSet(F) /\ 0 \notin F
    <2>2. 0 \notin F
        OBVIOUS
    <2> HIDE DEF Bad, Wrong
    <2>3. IsFiniteSet(F)
        BY FS_Subset
    <2> QED BY <2>2, <2>3
<1>8. SearchOK(f, t, F, prior)
    BY <1>9, <1>5, <1>6, <1>7, StepIsRight
<1> QED BY <1>9, <1>8

-----------------------------------------------------------------------------
(* Schedules: a Swiss round *)

\* The elements of a line-up.
LEMMA LineupElements ==
    ASSUME NEW E, NEW s, Lineup(s, E)
    PROVE  ToSet(s) = E
<1>1. s \in Seq(E) /\ \A e \in E : \E i \in 1..Len(s) : s[i] = e
    BY DEF Lineup
<1>2. DOMAIN s = 1..Len(s) /\ \A i \in 1..Len(s) : s[i] \in E
    BY <1>1
<1> QED BY <1>1, <1>2 DEF ToSet

\* Who rests is the last who had no bye yet, if there is one.
LEMMA ByeFacts ==
    ASSUME NEW n \in Nat, n >= 1, NEW s, Lineup(s, 1..n), Len(s) = n, NEW prior, NEW rest, rest = choose_swiss_bye(s, prior)
    PROVE  rest \in 1..n /\ s[rest] \in 1..n /\ (s[rest] \in prior => 1..n \subseteq prior)
<1>1. s \in Seq(1..n) /\ ToSet(s) = 1..n
    <2>1. s \in Seq(1..n)
        BY DEF Lineup
    <2>2. ToSet(s) = 1..n
        BY LineupElements
    <2> QED BY <2>1, <2>2
<1>2. CASE 1..n \subseteq prior
    <2>1. rest = n
        BY <1>1, <1>2 DEF choose_swiss_bye
    <2> QED BY <1>1, <1>2, <2>1
<1>3. CASE ~(1..n \subseteq prior)
    <2>1. PICK S : S = { i \in 1..n : s[i] \notin prior }
        OBVIOUS
    <2>2. rest = Max(S)
        BY <1>1, <1>3, <2>1 DEF choose_swiss_bye
    <2>3. S \subseteq 1..n /\ S /= {}
        <3>1. PICK e \in 1..n : e \notin prior
            BY <1>3
        <3>2. PICK i \in 1..n : s[i] = e
            BY DEF Lineup
        <3> QED BY <2>1, <3>1, <3>2
    <2>4. rest \in S
        BY <2>2, <2>3, LargestIsMax
    <2>5. rest \in 1..n /\ s[rest] \notin prior
        BY <2>1, <2>4
    <2> QED BY <1>1, <2>5
<1> QED BY <1>2, <1>3

\* Those who play.
ActiveOf(n, s, prior) == IF n % 2 = 0 THEN s ELSE RemoveAt(s, choose_swiss_bye(s, prior))
ByeOf(n, s, prior) == IF n % 2 = 0 THEN {} ELSE {s[choose_swiss_bye(s, prior)]}

\* Everyone plays or rests, and nobody rests twice before all have rested.
PlaysOrRests(active, bye, n, prior) ==
    /\ Lineup(active, 1..n \ bye) /\ Len(active) = 2 * (n \div 2) /\ bye \subseteq 1..n /\ IsFiniteSet(bye)
    /\ \A e \in bye : e \in prior => 1..n \subseteq prior

\* Who plays a Swiss round and who rests.
LEMMA ActiveFacts ==
    ASSUME NEW n \in Nat, n >= 2, NEW s, Lineup(s, 1..n), Len(s) = n, NEW prior,
           NEW active, active = ActiveOf(n, s, prior), NEW bye, bye = ByeOf(n, s, prior)
    PROVE  PlaysOrRests(active, bye, n, prior)
<1>1. CASE n % 2 = 0
    <2>1. active = s /\ bye = {}
        BY <1>1 DEF ActiveOf, ByeOf
    <2>2. 1..n \ bye = 1..n /\ n = 2 * (n \div 2)
        BY <1>1, <2>1
    <2>3. IsFiniteSet(bye)
        BY <2>1, FS_EmptySet
    <2>4. Lineup(active, 1..n \ bye)
        BY <2>1, <2>2
    <2>5. Len(active) = 2 * (n \div 2)
        BY <2>1, <2>2
    <2> QED BY <2>1, <2>3, <2>4, <2>5 DEF PlaysOrRests
<1>2. CASE n % 2 /= 0
    <2>1. PICK rest : rest = choose_swiss_bye(s, prior)
        OBVIOUS
    <2>2. rest \in 1..n /\ s[rest] \in 1..n /\ (s[rest] \in prior => 1..n \subseteq prior)
        <3>1. n >= 1
            OBVIOUS
        <3> QED BY <2>1, <3>1, ByeFacts
    <2>3. active = RemoveAt(s, rest) /\ bye = {s[rest]}
        BY <1>2, <2>1 DEF ActiveOf, ByeOf
    <2>4. Lineup(active, 1..n \ {s[rest]}) /\ Len(active) = n - 1
        BY <2>2, <2>3, LineupWithout
    <2>5. n - 1 = 2 * (n \div 2)
        BY <1>2
    <2>6. IsFiniteSet(bye)
        BY <2>3, FS_Singleton
    <2>7. Lineup(active, 1..n \ bye)
        BY <2>3, <2>4
    <2>8. Len(active) = 2 * (n \div 2)
        BY <2>4, <2>5
    <2> QED BY <2>2, <2>3, <2>6, <2>7, <2>8 DEF PlaysOrRests
<1> QED BY <1>1, <1>2

\* Neighbours make tables, too.
LEMMA NeighbourFacts ==
    ASSUME NEW E, NEW s, Lineup(s, E), NEW T \in Nat, Len(s) = 2 * T,
           NEW ps, ps = [t \in 1..T |-> <<s[2 * t - 1], s[2 * t]>>]
    PROVE  PairsOff(ps, E, T)
<1>1. s \in Seq(E) /\ (\A i, j \in 1..Len(s) : s[i] = s[j] => i = j)
    BY DEF Lineup
<1>2. PICK N \in Nat : N = 2 * T /\ N = Len(s)
    OBVIOUS
<1>3. ASSUME NEW t \in 1..T
      PROVE  \E i \in 1..N, j \in 1..N : /\ i = 2 * t - 1 /\ j = 2 * t /\ i /= j
                                        /\ ps[t] = <<s[i], s[j]>> /\ s[i] \in E /\ s[j] \in E
    <2>1. PICK i \in 1..N, j \in 1..N : i = 2 * t - 1 /\ j = 2 * t /\ i /= j
        <3>1. 2 * t - 1 \in 1..N /\ 2 * t \in 1..N /\ 2 * t - 1 /= 2 * t
            BY <1>2
        <3> QED BY <3>1
    <2>2. ps[t] = <<s[i], s[j]>>
        BY <2>1
    <2>3. s[i] \in E /\ s[j] \in E
        BY <1>1, <1>2
    <2> QED BY <2>1, <2>2, <2>3
<1>4. ps \in Seq(E \X E) /\ Len(ps) = T
    <2>1. \A t \in 1..T : ps[t] \in E \X E
        BY <1>3
    <2>2. ps \in [1..T -> E \X E]
        BY <2>1
    <2> QED BY <2>2
<1>5. ASSUME NEW t \in 1..T
      PROVE  ps[t][1] /= ps[t][2]
    <2>1. PICK i \in 1..N, j \in 1..N : i /= j /\ ps[t] = <<s[i], s[j]>>
        BY <1>3
    <2> QED BY <1>1, <1>2, <2>1
<1>6. ASSUME NEW t \in 1..T, NEW u \in 1..T, t /= u
      PROVE  {ps[t][1], ps[t][2]} \cap {ps[u][1], ps[u][2]} = {}
    <2>1. PICK i \in 1..N, j \in 1..N : i = 2 * t - 1 /\ j = 2 * t /\ ps[t] = <<s[i], s[j]>>
        BY <1>3
    <2>2. PICK k \in 1..N, l \in 1..N : k = 2 * u - 1 /\ l = 2 * u /\ ps[u] = <<s[k], s[l]>>
        BY <1>3
    <2>3. i /= k /\ i /= l /\ j /= k /\ j /= l
        BY <1>6, <2>1, <2>2
    <2>4. s[i] /= s[k] /\ s[i] /= s[l] /\ s[j] /= s[k] /\ s[j] /= s[l]
        BY <1>1, <1>2, <2>3
    <2>5. ps[t][1] = s[i] /\ ps[t][2] = s[j] /\ ps[u][1] = s[k] /\ ps[u][2] = s[l]
        BY <2>1, <2>2
    <2> QED BY <2>4, <2>5
<1> QED BY <1>4, <1>5, <1>6 DEF PairsOff

\* The pairs of a Swiss round.
PairsAreRight(ps, E, T, prior) ==
    /\ NoPairing \notin ToSet(ps) => PairsOff(ps, E, T)
    /\ (\/ NoPairing \in ToSet(ps)
        \/ { ToSet(p) : p \in { q \in ToSet(ps) : q /= NoPairing } } \cap prior /= {}) => FreshPairings(E, prior) = {}

\* swiss_pairs pairs everyone who plays, with a rematch only when forced.
LEMMA SwissPairsFacts ==
    ASSUME NEW n \in Nat, NEW E, E \subseteq 1..n, NEW s, Lineup(s, E), NEW T \in Nat, Len(s) = 2 * T, NEW prior, NEW policy
    PROVE  PairsAreRight(swiss_pairs(s, prior, policy), E, T, prior)
<1>1. PICK free : free = pair_without_rematches(s, prior)
    OBVIOUS
<1>2. PICK f : free = f[s] /\ Searched(f, E, Len(s), prior)
    BY <1>1, SearchFacts
<1>3. PICK ps : ps = swiss_pairs(s, prior, policy)
    OBVIOUS
<1>4. SearchOK(f, s, E, prior)
    <2>1. IsFiniteSet(1..n)
        BY CountTo
    <2>2. IsFiniteSet(E) /\ 0 \notin E
        <3>1. E \in SUBSET (1..n) /\ 0 \notin E
            OBVIOUS
        <3>2. IsFiniteSet(E)
            BY <2>1, <3>1, FS_Subset
        <3> QED BY <3>1, <3>2
    <2>3. PICK m \in Nat : m = Len(s)
        OBVIOUS
    <2>4. Searched(f, E, m, prior) /\ Len(s) <= m
        BY <1>2, <2>3
    <2>5. E \subseteq E
        OBVIOUS
    <2> QED BY <2>2, <2>4, <2>5, SearchIsRight
<1>5. CASE NoPairing \notin ToSet(free)
    <2>1. ps = free
        BY <1>1, <1>3, <1>5 DEF swiss_pairs
    <2>2. PICK U \in Nat : Len(s) = 2 * U /\ PairsOff(ps, E, U) /\ FreshFor(ps, U, prior)
        BY <1>2, <1>4, <1>5, <2>1, Zenon DEF SearchOK
    <2>3. U = T
        BY <2>2
    <2>4. ASSUME NEW p \in ToSet(ps)
          PROVE  ToSet(p) \notin prior
        <3>1. ps \in Seq(E \X E) /\ Len(ps) = T
            BY <2>2, <2>3 DEF PairsOff
        <3>2. PICK t \in 1..T : p = ps[t]
            BY <3>1 DEF ToSet
        <3>3. p \in E \X E
            BY <3>1, <3>2
        <3>4. PICK a, b : p = <<a, b>> /\ a = ps[t][1] /\ b = ps[t][2]
            BY <3>2, <3>3
        <3>5. ToSet(p) = {a, b}
            BY <3>4, PairElements
        <3>6. PairSet(a, b) \notin prior
            BY <2>2, <2>3, <3>4 DEF FreshFor
        <3> QED BY <3>5, <3>6 DEF PairSet
    <2>5. NoPairing \notin ToSet(ps)
        BY <1>5, <2>1
    <2>6. { ToSet(p) : p \in { q \in ToSet(ps) : q /= NoPairing } } \cap prior = {}
        BY <2>4
    <2>7. PairsOff(ps, E, T)
        BY <2>2, <2>3
    <2> QED BY <1>3, <2>5, <2>6, <2>7, Zenon DEF PairsAreRight
<1>6. CASE NoPairing \in ToSet(free)
    <2>1. FreshPairings(E, prior) = {}
        BY <1>2, <1>4, <1>6, Zenon DEF SearchOK
    <2>2. CASE policy = "allow_when_required"
        <3>1. ps = [t \in 1..Len(s) \div 2 |-> <<s[2 * t - 1], s[2 * t]>>]
            BY <1>1, <1>3, <1>6, <2>2 DEF swiss_pairs
        <3>2. Len(s) \div 2 = T
            OBVIOUS
        <3>3. ps = [t \in 1..T |-> <<s[2 * t - 1], s[2 * t]>>]
            BY <3>1, <3>2
        <3>4. PairsOff(ps, E, T)
            BY <3>3, NeighbourFacts
        <3> QED BY <1>3, <2>1, <3>4 DEF PairsAreRight
    <2>3. CASE policy /= "allow_when_required"
        <3>1. ps = <<NoPairing>>
            BY <1>1, <1>3, <1>6, <2>3 DEF swiss_pairs
        <3>2. NoPairing \in ToSet(ps)
            BY <3>1 DEF ToSet
        <3> QED BY <1>3, <2>1, <3>2 DEF PairsAreRight
    <2> QED BY <2>2, <2>3
<1> QED BY <1>5, <1>6

\* What a match of round k must be.
MatchInRound(x, k, s, bye) ==
    /\ x.round = k /\ x.one \in 1..s.n /\ x.two \in 1..s.n /\ x.one /= x.two
    /\ x.one \notin bye /\ x.two \notin bye
    /\ x.profile \in 0..s.profiles - 1 /\ x.table \in 1..s.n \div 2 /\ x.game \in 1..s.games

RoundIsSound(ms, k, s, bye) ==
    /\ ms \in Seq(MatchRecords)
    /\ \A i \in 1..Len(ms) : MatchInRound(ms[i], k, s, bye)
    /\ \A i, j \in 1..Len(ms) : i /= j /\ ms[i].game = ms[j].game =>
          {ms[i].one, ms[i].two} \cap {ms[j].one, ms[j].two} = {}

\* What the proofs about Swiss formats need of a specification.
SwissSpecOK(s) ==
    /\ s.n \in Nat /\ s.n >= 2 /\ s.games \in Nat \ {0} /\ s.profiles \in Nat \ {0}

\* The matches of a round whose pairs are tables.
SwissMatches(s, ps, balance, k) ==
    add_round(k, [t \in DOMAIN ps |-> preferred_orientation(ps[t], balance)],
              [t \in DOMAIN ps |-> preferred_profile(t, s.profiles)], s.games)

\* The matches made of a full pairing are those of a sound round.
LEMMA SwissMatchesFacts ==
    ASSUME NEW s, SwissSpecOK(s), NEW bye, NEW ps, PairsOff(ps, 1..s.n \ bye, s.n \div 2), NEW balance, NEW k \in Nat
    PROVE  RoundIsSound(SwissMatches(s, ps, balance, k), k, s, bye)
<1>1. PICK n \in Nat, G \in Nat \ {0}, P \in Nat \ {0} : n = s.n /\ G = s.games /\ P = s.profiles /\ n >= 2
    BY DEF SwissSpecOK
<1>2. PICK T \in Nat : T = n \div 2
    BY <1>1
<1>3. PICK E : E = 1..n \ bye
    OBVIOUS
<1>4. /\ ps \in Seq(E \X E) /\ Len(ps) = T
      /\ \A t \in 1..T : ps[t][1] /= ps[t][2]
      /\ \A t, u \in 1..T : t /= u => {ps[t][1], ps[t][2]} \cap {ps[u][1], ps[u][2]} = {}
    BY <1>1, <1>2, <1>3, Zenon DEF PairsOff
<1>5. DOMAIN ps = 1..T /\ \A t \in 1..T : ps[t] \in E \X E
    BY <1>4
<1>6. PICK bases : bases = [t \in 1..T |-> preferred_orientation(ps[t], balance)]
    OBVIOUS
<1>7. PICK profiles : profiles = [t \in 1..T |-> preferred_profile(t, P)]
    OBVIOUS
<1>8. SwissMatches(s, ps, balance, k) = add_round(k, bases, profiles, G)
    BY <1>1, <1>5, <1>6, <1>7, Zenon DEF SwissMatches
<1>9. ASSUME NEW t \in 1..T
      PROVE  /\ {bases[t][1], bases[t][2]} = {ps[t][1], ps[t][2]} /\ bases[t][1] /= bases[t][2]
             /\ bases[t][1] \in E /\ bases[t][2] \in E
    <2>1. PICK p, q : p = ps[t] /\ q = <<p[2], p[1]>>
        OBVIOUS
    <2>2. bases[t] = p \/ bases[t] = q
        BY <1>6, <2>1 DEF preferred_orientation
    <2>3. p[1] \in E /\ p[2] \in E /\ p[1] /= p[2]
        BY <1>4, <1>5, <2>1
    <2>4. q[1] = p[2] /\ q[2] = p[1]
        BY <2>1
    <2> QED BY <2>1, <2>2, <2>3, <2>4
<1>10. ASSUME NEW t \in 1..T
       PROVE  profiles[t] \in 0..P - 1
    <2>1. profiles[t] = (t - 1) % P
        BY <1>7 DEF preferred_profile
    <2>2. t - 1 \in Int
        OBVIOUS
    <2> QED BY <2>1, <2>2
<1>11. PICK ms : ms = add_round(k, bases, profiles, G)
    OBVIOUS
<1>12. LaidOut(ms, k, bases, profiles, T, G)
    <2>1. DOMAIN bases = 1..T
        BY <1>6
    <2>2. \A t \in 1..T : bases[t][1] \in Nat /\ bases[t][2] \in Nat /\ profiles[t] \in Nat
        BY <1>3, <1>9, <1>10
    <2> QED BY <1>11, <2>1, <2>2, RoundIsLaidOut
<1>13. /\ ms \in Seq(MatchRecords) /\ Len(ms) = T * G
       /\ \A t \in 1..T, g \in 1..G : ms[Place(t, g, G)] = MatchAt(k, t, g, bases[t], profiles[t])
    BY <1>12 DEF LaidOut
<1>14. \A i \in 1..T * G : \E t \in 1..T, g \in 1..G : i = Place(t, g, G)
    BY PlaceFacts, Zenon
<1>15. ASSUME NEW i \in 1..Len(ms)
       PROVE  \E t \in 1..T, g \in 1..G : i = Place(t, g, G) /\ ms[i] = MatchAt(k, t, g, bases[t], profiles[t])
    <2>1. i \in 1..T * G
        BY <1>13
    <2>2. PICK t \in 1..T, g \in 1..G : i = Place(t, g, G)
        BY <1>14, <2>1
    <2>3. ms[Place(t, g, G)] = MatchAt(k, t, g, bases[t], profiles[t])
        BY <1>13, Zenon
    <2> QED BY <2>2, <2>3, Zenon
<1>16. ASSUME NEW t \in 1..T, NEW g \in 1..G, NEW x, x = MatchAt(k, t, g, bases[t], profiles[t])
       PROVE  /\ x.round = k /\ x.table = t /\ x.game = g /\ x.profile = profiles[t]
              /\ {x.one, x.two} = {ps[t][1], ps[t][2]} /\ x.one /= x.two /\ x.one \in E /\ x.two \in E
    <2>1. /\ x.round = k /\ x.table = t /\ x.game = g /\ x.profile = profiles[t]
          /\ x.one = IF g % 2 = 1 THEN bases[t][1] ELSE bases[t][2]
          /\ x.two = IF g % 2 = 1 THEN bases[t][2] ELSE bases[t][1]
        BY <1>16 DEF MatchAt
    <2>2. (x.one = bases[t][1] /\ x.two = bases[t][2]) \/ (x.one = bases[t][2] /\ x.two = bases[t][1])
        BY <2>1
    <2>3. {bases[t][1], bases[t][2]} = {ps[t][1], ps[t][2]} /\ bases[t][1] /= bases[t][2]
          /\ bases[t][1] \in E /\ bases[t][2] \in E
        BY <1>9
    <2>4. {x.one, x.two} = {bases[t][1], bases[t][2]}
        BY <2>2
    <2> QED BY <2>1, <2>2, <2>3, <2>4
<1>17. ASSUME NEW i \in 1..Len(ms)
       PROVE  MatchInRound(ms[i], k, s, bye)
    <2>1. PICK t \in 1..T, g \in 1..G : i = Place(t, g, G) /\ ms[i] = MatchAt(k, t, g, bases[t], profiles[t])
        BY <1>15
    <2>2. /\ ms[i].round = k /\ ms[i].table = t /\ ms[i].game = g /\ ms[i].profile = profiles[t]
          /\ ms[i].one /= ms[i].two /\ ms[i].one \in E /\ ms[i].two \in E
        BY <1>16, <2>1
    <2>3. ms[i].profile \in 0..P - 1
        BY <1>10, <2>2
    <2> QED BY <1>1, <1>2, <1>3, <2>2, <2>3 DEF MatchInRound
<1>18. ASSUME NEW i \in 1..Len(ms), NEW j \in 1..Len(ms), i /= j, ms[i].game = ms[j].game
       PROVE  {ms[i].one, ms[i].two} \cap {ms[j].one, ms[j].two} = {}
    <2>1. PICK t \in 1..T, g \in 1..G : i = Place(t, g, G) /\ ms[i] = MatchAt(k, t, g, bases[t], profiles[t])
        BY <1>15
    <2>2. PICK u \in 1..T, h \in 1..G : j = Place(u, h, G) /\ ms[j] = MatchAt(k, u, h, bases[u], profiles[u])
        BY <1>15
    <2>3. ms[i].game = g /\ {ms[i].one, ms[i].two} = {ps[t][1], ps[t][2]}
        BY <1>16, <2>1
    <2>4. ms[j].game = h /\ {ms[j].one, ms[j].two} = {ps[u][1], ps[u][2]}
        BY <1>16, <2>2, SMTT(40)
    <2>5. t /= u
        BY <1>18, <2>1, <2>2, <2>3, <2>4
    <2>6. {ps[t][1], ps[t][2]} \cap {ps[u][1], ps[u][2]} = {}
        BY <1>4, <2>5
    <2> QED BY <2>3, <2>4, <2>6
<1>19. RoundIsSound(ms, k, s, bye)
    BY <1>13, <1>17, <1>18, Zenon DEF RoundIsSound
<1> QED BY <1>8, <1>11, <1>19

\* What the round that a progress leads to must be.
SwissRoundOK(next, s, progress) ==
    /\ next.bye \subseteq 1..s.n /\ IsFiniteSet(next.bye)
    /\ \A e \in next.bye : e \in progress.prior_byes => 1..s.n \subseteq progress.prior_byes
    /\ PairsAreRight(next.pairs, ToSet(next.active), s.n \div 2, progress.prior_pairings)
    /\ NoPairing \notin ToSet(next.pairs) =>
          RoundIsSound(next.matches, progress.completed_rounds + 1, s, next.bye)

\* The round schedule_swiss_round works out is sound, whatever the progress.
LEMMA SwissRoundFacts ==
    ASSUME NEW s, SwissSpecOK(s), NEW progress, progress.completed_rounds \in Nat, progress.standing \in [1..s.n -> Int],
           NEW next, next = SwissRoundOf(s, progress)
    PROVE  SwissRoundOK(next, s, progress)
<1>1. PICK n \in Nat : n = s.n /\ n >= 2
    BY DEF SwissSpecOK
<1>2. PICK ordered : ordered = ordered_swiss_entrants(n, progress.standing)
    OBVIOUS
<1>3. Lineup(ordered, 1..n) /\ Len(ordered) = n
    BY <1>1, <1>2, OrderIsLineup
<1>4. PICK active, bye, prior : /\ active = ActiveOf(n, ordered, prior) /\ bye = ByeOf(n, ordered, prior)
                                /\ prior = progress.prior_byes
    OBVIOUS
<1>5. /\ Lineup(active, 1..n \ bye) /\ Len(active) = 2 * (n \div 2) /\ bye \subseteq 1..n /\ IsFiniteSet(bye)
      /\ \A e \in bye : e \in progress.prior_byes => 1..n \subseteq progress.prior_byes
    <2>1. PlaysOrRests(active, bye, n, prior)
        BY <1>1, <1>3, <1>4, ActiveFacts
    <2> QED BY <1>4, <2>1 DEF PlaysOrRests
<1>6. PICK pairs : pairs = swiss_pairs(active, progress.prior_pairings, s.rematches)
    OBVIOUS
<1>14. PICK T \in Nat : T = n \div 2
    BY <1>1
<1>15. PICK E : E = 1..n \ bye
    OBVIOUS
<1>7. E = 1..n \ bye /\ T = n \div 2
    BY <1>14, <1>15
<1>8. PairsAreRight(pairs, E, T, progress.prior_pairings)
    <2>1. E \subseteq 1..n /\ Lineup(active, E) /\ Len(active) = 2 * T
        BY <1>5, <1>7
    <2> QED BY <1>6, <2>1, SwissPairsFacts
<1>9. PICK ms : ms = IF NoPairing \in ToSet(pairs) THEN <<>>
                     ELSE SwissMatches(s, pairs, progress.balance, progress.completed_rounds + 1)
    OBVIOUS
<1>10. next = [bye |-> bye, active |-> active, pairs |-> pairs, matches |-> ms]
    BY <1>1, <1>2, <1>4, <1>6, <1>9, Zenon DEF SwissRoundOf, ActiveOf, ByeOf, SwissMatches
<1>11. next.bye = bye /\ next.active = active /\ next.pairs = pairs /\ next.matches = ms
    BY <1>10
<1>12. ToSet(next.active) = E
    BY <1>5, <1>7, <1>11, LineupElements
<1>13. ASSUME NoPairing \notin ToSet(pairs)
       PROVE  RoundIsSound(ms, progress.completed_rounds + 1, s, bye)
    <2>1. PairsOff(pairs, 1..s.n \ bye, s.n \div 2)
        BY <1>1, <1>7, <1>8, <1>13, Zenon DEF PairsAreRight
    <2>2. progress.completed_rounds + 1 \in Nat
        OBVIOUS
    <2>3. ms = SwissMatches(s, pairs, progress.balance, progress.completed_rounds + 1)
        BY <1>9, <1>13
    <2> QED BY <2>1, <2>2, <2>3, SwissMatchesFacts
<1> QED BY <1>1, <1>5, <1>7, <1>8, <1>11, <1>12, <1>13, Zenon DEF SwissRoundOK

-----------------------------------------------------------------------------
(* Schedules: round after round *)

\* NoDoubleBooking, of any matches and byes.
BookedOnce(ms, byes) ==
    /\ \A i, j \in DOMAIN ms :
          (i /= j /\ ms[i].round = ms[j].round /\ ms[i].game = ms[j].game) =>
             {ms[i].one, ms[i].two} \cap {ms[j].one, ms[j].two} = {}
    /\ \A i \in DOMAIN ms :
          /\ ms[i].one /= ms[i].two
          /\ \A b \in byes : b.round = ms[i].round => b.entrant \notin {ms[i].one, ms[i].two}

\* The matches up to round c.
MatchesUpto(ms, s, c) ==
    /\ ms \in Seq(MatchRecords)
    /\ \A i \in DOMAIN ms :
          /\ ms[i].round <= c /\ ms[i].one \in 1..s.n /\ ms[i].two \in 1..s.n
          /\ ms[i].profile \in 0..s.profiles - 1 /\ ms[i].table \in 1..s.n \div 2 /\ ms[i].game \in 1..s.games

\* The byes up to round c, and who had one.
ByesUpto(byes, prior, n, c) ==
    /\ IsFiniteSet(byes)
    /\ \A b \in byes : b.round \in Nat /\ b.round <= c /\ b.entrant \in prior
    /\ \A e \in prior : \E b \in byes : b.entrant = e
    /\ \A b, d \in byes : b /= d /\ b.entrant = d.entrant => 1..n \subseteq prior

ByesOfRound(bye, k) == { [round |-> k, entrant |-> e] : e \in bye }

\* Where an element of two lists put together comes from.
LEMMA JoinedFrom ==
    ASSUME NEW S, NEW a \in Seq(S), NEW c \in Seq(S), NEW i \in DOMAIN (a \o c)
    PROVE  \/ i \in DOMAIN a /\ (a \o c)[i] = a[i]
           \/ \E j \in DOMAIN c : i = Len(a) + j /\ (a \o c)[i] = c[j]
<1>1. PICK p \in Nat, q \in Nat : p = Len(a) /\ q = Len(c)
    OBVIOUS
<1>2. a \o c \in Seq(S) /\ Len(a \o c) = Len(a) + Len(c)
    BY JoinedByIndex
<1>3. \A j \in 1..Len(a) : (a \o c)[j] = a[j]
    BY JoinedByIndex
<1>4. \A j \in 1..Len(c) : (a \o c)[Len(a) + j] = c[j]
    BY JoinedByIndex
<1>5. DOMAIN (a \o c) = 1..p + q /\ DOMAIN a = 1..p /\ DOMAIN c = 1..q
    BY <1>1, <1>2
<1>6. CASE i <= p
    BY <1>1, <1>3, <1>5, <1>6
<1>7. CASE ~(i <= p)
    <2>1. PICK j \in 1..q : i = p + j
        <3>1. i - p \in 1..q /\ i = p + (i - p)
            BY <1>1, <1>5, <1>7
        <3> QED BY <3>1
    <2> QED BY <1>1, <1>4, <1>5, <2>1
<1> QED BY <1>6, <1>7

\* A sound round added to a schedule without double bookings leaves none.
LEMMA BookingGrows ==
    ASSUME NEW s, NEW old, NEW c \in Nat, MatchesUpto(old, s, c), NEW byes, NEW prior, NEW n, ByesUpto(byes, prior, n, c),
           BookedOnce(old, byes), NEW ms, NEW k, k = c + 1, NEW bye, RoundIsSound(ms, k, s, bye)
    PROVE  BookedOnce(old \o ms, byes \cup ByesOfRound(bye, k)) /\ MatchesUpto(old \o ms, s, k)
<1>1. /\ old \in Seq(MatchRecords)
      /\ \A i \in DOMAIN old :
          /\ old[i].round <= c /\ old[i].one \in 1..s.n /\ old[i].two \in 1..s.n
          /\ old[i].profile \in 0..s.profiles - 1 /\ old[i].table \in 1..s.n \div 2 /\ old[i].game \in 1..s.games
    BY DEF MatchesUpto
<1>2. \A i \in DOMAIN old : old[i].round \in Nat
    <2>1. \A i \in DOMAIN old : old[i] \in MatchRecords
        BY <1>1
    <2> QED BY <2>1 DEF MatchRecords
<1>3. /\ ms \in Seq(MatchRecords)
      /\ \A i \in DOMAIN ms : MatchInRound(ms[i], k, s, bye)
      /\ \A i, j \in DOMAIN ms : i /= j /\ ms[i].game = ms[j].game =>
            {ms[i].one, ms[i].two} \cap {ms[j].one, ms[j].two} = {}
    <2>1. ms \in Seq(MatchRecords)
        BY DEF RoundIsSound
    <2>2. DOMAIN ms = 1..Len(ms)
        BY <2>1
    <2> QED BY <2>1, <2>2, Zenon DEF RoundIsSound
<1>4. PICK all : all = old \o ms
    OBVIOUS
<1>5. all \in Seq(MatchRecords) /\ Len(old) \in Nat /\ DOMAIN old = 1..Len(old)
    BY <1>1, <1>3, <1>4, JoinedByIndex
<1>6. ASSUME NEW i \in DOMAIN all
      PROVE  \/ i \in DOMAIN old /\ all[i] = old[i]
             \/ \E j \in DOMAIN ms : i = Len(old) + j /\ all[i] = ms[j]
    <2>1. old \in Seq(MatchRecords) /\ ms \in Seq(MatchRecords) /\ i \in DOMAIN (old \o ms)
        BY <1>1, <1>3, <1>4
    <2>2. \/ i \in DOMAIN old /\ (old \o ms)[i] = old[i]
          \/ \E j \in DOMAIN ms : i = Len(old) + j /\ (old \o ms)[i] = ms[j]
        BY <2>1, JoinedFrom
    <2> QED BY <1>4, <2>2
<1>7. ASSUME NEW j \in DOMAIN ms
      PROVE  /\ ms[j].round = k /\ ms[j].one \in 1..s.n /\ ms[j].two \in 1..s.n /\ ms[j].one /= ms[j].two
             /\ ms[j].one \notin bye /\ ms[j].two \notin bye
             /\ ms[j].profile \in 0..s.profiles - 1 /\ ms[j].table \in 1..s.n \div 2 /\ ms[j].game \in 1..s.games
    BY <1>3, Zenon DEF MatchInRound
<1>8. ASSUME NEW i \in DOMAIN all
      PROVE  /\ all[i].round <= k /\ all[i].one \in 1..s.n /\ all[i].two \in 1..s.n
             /\ all[i].profile \in 0..s.profiles - 1 /\ all[i].table \in 1..s.n \div 2 /\ all[i].game \in 1..s.games
    <2>1. CASE i \in DOMAIN old /\ all[i] = old[i]
        <3>1. all[i].round <= k
            BY <1>1, <1>2, <2>1
        <3> QED BY <1>1, <2>1, <3>1
    <2>2. ASSUME NEW j \in DOMAIN ms, all[i] = ms[j]
          PROVE  /\ all[i].round <= k /\ all[i].one \in 1..s.n /\ all[i].two \in 1..s.n
                 /\ all[i].profile \in 0..s.profiles - 1 /\ all[i].table \in 1..s.n \div 2 /\ all[i].game \in 1..s.games
        <3>1. all[i].round <= k
            BY <1>7, <2>2
        <3> QED BY <1>7, <2>2, <3>1
    <2> QED BY <1>6, <2>1, <2>2
<1>9. ASSUME NEW i \in DOMAIN all, NEW j \in DOMAIN all, i /= j, all[i].round = all[j].round, all[i].game = all[j].game
      PROVE  {all[i].one, all[i].two} \cap {all[j].one, all[j].two} = {}
    <2>1. CASE i \in DOMAIN old /\ all[i] = old[i] /\ j \in DOMAIN old /\ all[j] = old[j]
        BY <1>9, <2>1 DEF BookedOnce
    <2>2. ASSUME NEW x \in DOMAIN ms, i = Len(old) + x, all[i] = ms[x], NEW y \in DOMAIN ms, j = Len(old) + y, all[j] = ms[y]
          PROVE  {all[i].one, all[i].two} \cap {all[j].one, all[j].two} = {}
        <3>1. x /= y
            BY <1>9, <2>2
        <3>2. ms[x].game = ms[y].game
            BY <1>9, <2>2
        <3>3. {ms[x].one, ms[x].two} \cap {ms[y].one, ms[y].two} = {}
            BY <1>3, <3>1, <3>2
        <3> QED BY <2>2, <3>3
    <2>3. ASSUME NEW x \in DOMAIN old, NEW y \in DOMAIN ms
          PROVE  old[x].round /= ms[y].round
        BY <1>1, <1>2, <1>7
    <2> QED BY <1>6, <1>9, <2>1, <2>2, <2>3
<1>10. ASSUME NEW i \in DOMAIN all
       PROVE  /\ all[i].one /= all[i].two
              /\ \A b \in byes \cup ByesOfRound(bye, k) : b.round = all[i].round => b.entrant \notin {all[i].one, all[i].two}
    <2>1. ASSUME NEW b \in ByesOfRound(bye, k)
          PROVE  b.round = k /\ b.entrant \in bye
        BY DEF ByesOfRound
    <2>2. ASSUME NEW b \in byes
          PROVE  b.round \in Nat /\ b.round <= c
        BY DEF ByesUpto
    <2>3. CASE i \in DOMAIN old /\ all[i] = old[i]
        <3>1. all[i].one /= all[i].two /\ \A b \in byes : b.round = all[i].round => b.entrant \notin {all[i].one, all[i].two}
            BY <2>3 DEF BookedOnce
        <3>2. \A b \in ByesOfRound(bye, k) : b.round /= all[i].round
            BY <1>1, <1>2, <2>1, <2>3
        <3> QED BY <3>1, <3>2
    <2>4. ASSUME NEW j \in DOMAIN ms, all[i] = ms[j]
          PROVE  /\ all[i].one /= all[i].two
                 /\ \A b \in byes \cup ByesOfRound(bye, k) : b.round = all[i].round => b.entrant \notin {all[i].one, all[i].two}
        <3>1. all[i].one /= all[i].two /\ all[i].round = k /\ all[i].one \notin bye /\ all[i].two \notin bye
            BY <1>7, <2>4
        <3>2. \A b \in byes : b.round /= all[i].round
            BY <2>2, <3>1
        <3>3. \A b \in ByesOfRound(bye, k) : b.entrant \notin {all[i].one, all[i].two}
            BY <2>1, <3>1
        <3> QED BY <3>1, <3>2, <3>3
    <2> QED BY <1>6, <2>3, <2>4
<1>11. BookedOnce(all, byes \cup ByesOfRound(bye, k))
    BY <1>9, <1>10, Zenon DEF BookedOnce
<1>12. MatchesUpto(all, s, k)
    BY <1>5, <1>8, Zenon DEF MatchesUpto
<1> QED BY <1>4, <1>11, <1>12

\* A bye given only when due keeps the byes rotating.
LEMMA ByesGrow ==
    ASSUME NEW n \in Nat, NEW c \in Nat, NEW byes, NEW prior, ByesUpto(byes, prior, n, c), NEW k, k = c + 1,
           NEW bye, IsFiniteSet(bye), \A e \in bye : e \in prior => 1..n \subseteq prior
    PROVE  ByesUpto(byes \cup ByesOfRound(bye, k), prior \cup bye, n, k)
<1>1. PICK new : new = ByesOfRound(bye, k)
    OBVIOUS
<1>2. /\ IsFiniteSet(byes)
      /\ \A b \in byes : b.round \in Nat /\ b.round <= c /\ b.entrant \in prior
      /\ \A e \in prior : \E b \in byes : b.entrant = e
      /\ \A b, d \in byes : b /= d /\ b.entrant = d.entrant => 1..n \subseteq prior
    BY DEF ByesUpto
<1>3. PICK f : f = [e \in bye |-> [round |-> k, entrant |-> e]]
    OBVIOUS
<1>4. \A e \in bye : f[e] \in new /\ f[e].entrant = e /\ f[e].round = k
    BY <1>1, <1>3 DEF ByesOfRound
<1>5. \A b \in new : \E e \in bye : f[e] = b
    BY <1>1, <1>3 DEF ByesOfRound
<1>6. IsFiniteSet(new)
    <2>1. f \in [bye -> new]
        BY <1>3, <1>4
    <2>2. \A x, y \in bye : f[x] = f[y] => x = y
        BY <1>4
    <2> QED BY <1>5, <2>1, <2>2, SameCount
<1>7. IsFiniteSet(byes \cup new)
    BY <1>2, <1>6, FS_Union
<1>8. \A b \in new : b.round = k /\ b.entrant \in bye /\ b = f[b.entrant]
    BY <1>4, <1>5
<1>9. \A b \in byes \cup new : b.round \in Nat /\ b.round <= k /\ b.entrant \in prior \cup bye
    <2>1. k \in Nat
        OBVIOUS
    <2> QED BY <1>2, <1>8, <2>1
<1>10. \A e \in prior \cup bye : \E b \in byes \cup new : b.entrant = e
    BY <1>2, <1>4
<1>11. ASSUME NEW b \in byes \cup new, NEW d \in byes \cup new, b /= d, b.entrant = d.entrant
       PROVE  1..n \subseteq prior \cup bye
    <2>1. CASE b \in byes /\ d \in byes
        BY <1>2, <1>11, <2>1
    <2>2. CASE b \in new /\ d \in new
        BY <1>8, <1>11, <2>2
    <2>3. CASE b \in new /\ d \in byes
        BY <1>2, <1>8, <1>11, <2>3
    <2>4. CASE b \in byes /\ d \in new
        BY <1>2, <1>8, <1>11, <2>4
    <2> QED BY <2>1, <2>2, <2>3, <2>4
<1>12. ByesUpto(byes \cup new, prior \cup bye, n, k)
    BY <1>7, <1>9, <1>10, <1>11, Zenon DEF ByesUpto
<1> QED BY <1>1, <1>12

\* Nobody rests twice before everybody has.
LEMMA ByesAreFair ==
    ASSUME NEW n \in Nat, NEW c, NEW byes, NEW prior, ByesUpto(byes, prior, n, c), NEW e \in 1..n, NEW f \in 1..n,
           Cardinality({ b \in byes : b.entrant = e }) >= 2
    PROVE  Cardinality({ b \in byes : b.entrant = f }) >= 1
<1>1. /\ IsFiniteSet(byes)
      /\ \A x \in prior : \E b \in byes : b.entrant = x
      /\ \A b, d \in byes : b /= d /\ b.entrant = d.entrant => 1..n \subseteq prior
    BY DEF ByesUpto
<1>2. PICK S : S = { b \in byes : b.entrant = e }
    OBVIOUS
<1>3. PICK R : R = { b \in byes : b.entrant = f }
    OBVIOUS
<1>4. S \in SUBSET byes /\ R \in SUBSET byes
    BY <1>2, <1>3
<1>5. IsFiniteSet(S) /\ IsFiniteSet(R)
    BY <1>1, <1>4, FS_Subset
<1>6. Cardinality(S) \in Nat /\ Cardinality(R) \in Nat
    BY <1>5, FS_CardinalityType
<1>7. S /= {}
    <2>1. Cardinality(S) >= 2
        BY <1>2
    <2>2. Cardinality(S) /= 0
        BY <1>6, <2>1
    <2> QED BY <1>5, <2>2, FS_EmptySet
<1>8. PICK b \in S : TRUE
    BY <1>7
<1>9. PICK Q : Q = S \ {b}
    OBVIOUS
<1>10. IsFiniteSet(Q) /\ Cardinality(Q) = Cardinality(S) - 1
    BY <1>5, <1>8, <1>9, FS_RemoveElement
<1>11. Q /= {}
    <2>1. Cardinality(S) >= 2
        BY <1>2
    <2>2. Cardinality(Q) /= 0
        BY <1>6, <1>10, <2>1
    <2> QED BY <1>10, <2>2, FS_EmptySet
<1>12. PICK d \in Q : TRUE
    BY <1>11
<1>13. 1..n \subseteq prior
    BY <1>1, <1>2, <1>9, <1>12
<1>14. R /= {}
    BY <1>1, <1>3, <1>13
<1>15. Cardinality(R) /= 0
    BY <1>5, <1>14, FS_EmptySet
<1> QED BY <1>3, <1>6, <1>15

\* What holds of a Swiss tournament between its rounds.
SwissSoFar(s, progress, ms, byes) ==
    /\ SwissSpecOK(s)
    /\ progress.completed_rounds \in Nat /\ progress.standing \in [1..s.n -> Int]
    /\ MatchesUpto(ms, s, progress.completed_rounds)
    /\ ByesUpto(byes, progress.prior_byes, s.n, progress.completed_rounds)
    /\ BookedOnce(ms, byes)

\* And of a static one: the whole schedule or nothing.
StaticSoFar(s, ms, byes, outcome) ==
    /\ StaticSpecOK(s)
    /\ outcome = "scheduled" => ms = StaticMatches(s) /\ byes = StaticByes(s)
    /\ outcome /= "scheduled" => ms = <<>> /\ byes = {}

ScheduleInv ==
    /\ tnOutcome \in {"none", "scheduled", "missing_game_seeds", "extra_game_seeds", "swiss_pairing_unavailable"}
    /\ \/ tnSpec.kind = "static" /\ StaticSoFar(tnSpec, tnMatches, tnByes, tnOutcome)
       \/ tnSpec.kind = "swiss" /\ SwissSoFar(tnSpec, tnProgress, tnMatches, tnByes)

\* Validated specifications are of the kind they say.
LEMMA SpecKinds ==
    /\ \A s \in StaticSpecs : s.kind = "static" /\ StaticSpecOK(s)
    /\ \A s \in SwissSpecs : s.kind = "swiss" /\ SwissSpecOK(s)
BY ScheduleAssumption DEF StaticSpecOK, SwissSpecOK

\* Initially nothing is scheduled.
LEMMA ScheduleInit == TournamentInit => ScheduleInv
<1> SUFFICES ASSUME TournamentInit
             PROVE  ScheduleInv
    OBVIOUS
<1>1. /\ tnSpec \in StaticSpecs \cup SwissSpecs /\ tnProgress = NewProgress(tnSpec.n)
      /\ tnMatches = <<>> /\ tnByes = {} /\ tnOutcome = "none"
    BY DEF TournamentInit
<1>2. CASE tnSpec \in StaticSpecs
    <2>1. tnSpec.kind = "static" /\ StaticSpecOK(tnSpec)
        BY <1>2, SpecKinds
    <2>2. StaticSoFar(tnSpec, tnMatches, tnByes, tnOutcome)
        BY <1>1, <2>1 DEF StaticSoFar
    <2> QED BY <1>1, <2>1, <2>2 DEF ScheduleInv
<1>3. CASE tnSpec \in SwissSpecs
    <2>1. tnSpec.kind = "swiss" /\ SwissSpecOK(tnSpec)
        BY <1>3, SpecKinds
    <2>2. tnProgress.completed_rounds = 0 /\ tnProgress.standing = [e \in 1..tnSpec.n |-> 0] /\ tnProgress.prior_byes = {}
        BY <1>1 DEF NewProgress, Entrants
    <2>3. tnProgress.standing \in [1..tnSpec.n -> Int]
        BY <2>2
    <2>4. MatchesUpto(tnMatches, tnSpec, 0) /\ BookedOnce(tnMatches, tnByes)
        BY <1>1 DEF MatchesUpto, BookedOnce
    <2>5. ByesUpto(tnByes, {}, tnSpec.n, 0)
        BY <1>1, FS_EmptySet DEF ByesUpto
    <2>6. SwissSoFar(tnSpec, tnProgress, tnMatches, tnByes)
        BY <2>1, <2>2, <2>3, <2>4, <2>5 DEF SwissSoFar
    <2> QED BY <1>1, <2>1, <2>6 DEF ScheduleInv
<1> QED BY <1>1, <1>2, <1>3

\* schedule: all of the static schedule, or none of it.
LEMMA StaticStep == ScheduleInv /\ schedule => ScheduleInv'
<1> SUFFICES ASSUME ScheduleInv, schedule
             PROVE  ScheduleInv'
    OBVIOUS
<1>1. tnSpec.kind = "static" /\ tnOutcome = "none" /\ tnSpec' = tnSpec
    BY DEF schedule
<1>2. StaticSoFar(tnSpec, tnMatches, tnByes, tnOutcome)
    BY <1>1 DEF ScheduleInv
<1>3. StaticSpecOK(tnSpec) /\ tnMatches = <<>> /\ tnByes = {}
    BY <1>1, <1>2 DEF StaticSoFar
<1>4. PICK matches : matches = StaticMatches(tnSpec)
    OBVIOUS
<1>5. CASE Len(matches) = tnSpec.seeds
    <2>1. tnOutcome' = "scheduled" /\ tnMatches' = StaticMatches(tnSpec) /\ tnByes' = StaticByes(tnSpec)
        BY <1>4, <1>5 DEF schedule, StaticMatches, StaticByes
    <2>2. StaticSoFar(tnSpec', tnMatches', tnByes', tnOutcome')
        BY <1>1, <1>3, <2>1 DEF StaticSoFar
    <2> QED BY <1>1, <2>1, <2>2 DEF ScheduleInv
<1>6. CASE Len(matches) /= tnSpec.seeds
    <2>1. tnOutcome' \in {"missing_game_seeds", "extra_game_seeds"} /\ tnMatches' = tnMatches /\ tnByes' = tnByes
        BY <1>4, <1>6 DEF schedule, StaticMatches
    <2>2. tnOutcome' /= "scheduled"
        BY <2>1
    <2>3. StaticSoFar(tnSpec', tnMatches', tnByes', tnOutcome')
        BY <1>1, <1>3, <2>1, <2>2 DEF StaticSoFar
    <2> QED BY <1>1, <2>1, <2>3 DEF ScheduleInv
<1> QED BY <1>5, <1>6

\* A standing grows by what a round gives.
Gained(pairs, gain, e) ==
    LET t == { i \in DOMAIN pairs : e \in ToSet(pairs[i]) }
    IN IF t = {} THEN 2
       ELSE LET i == CHOOSE i \in t : TRUE
            IN IF e = pairs[i][1] THEN gain[i] ELSE 2 - gain[i]

\* An entrant gains a whole number of points in a round.
LEMMA GainedIsWhole ==
    ASSUME NEW E, NEW T, NEW pairs, PairsOff(pairs, E, T), NEW gain \in [1..Len(pairs) -> 0..2], NEW e
    PROVE  Gained(pairs, gain, e) \in Int
<1>1. PICK S : S = { i \in DOMAIN pairs : e \in ToSet(pairs[i]) }
    OBVIOUS
<1>2. CASE S = {}
    BY <1>1, <1>2 DEF Gained
<1>3. CASE S /= {}
    <2>1. PICK i : i = CHOOSE x \in S : TRUE
        OBVIOUS
    <2>2. i \in S
        BY <1>3, <2>1
    <2>3. i \in 1..Len(pairs)
        <3>1. pairs \in Seq(E \X E)
            BY DEF PairsOff
        <3> QED BY <1>1, <2>2, <3>1
    <2>4. gain[i] \in Int /\ 2 - gain[i] \in Int
        BY <2>3
    <2>5. Gained(pairs, gain, e) = IF e = pairs[i][1] THEN gain[i] ELSE 2 - gain[i]
        BY <1>1, <1>3, <2>1 DEF Gained
    <2> QED BY <2>4, <2>5
<1> QED BY <1>2, <1>3

\* schedule_swiss_round adds a sound round or leaves the schedule alone.
LEMMA SwissStep == ScheduleInv /\ schedule_swiss_round => ScheduleInv'
<1> SUFFICES ASSUME ScheduleInv, schedule_swiss_round
             PROVE  ScheduleInv'
    OBVIOUS
<1>1. tnSpec.kind = "swiss" /\ tnSpec' = tnSpec
    BY DEF schedule_swiss_round
<1>2. SwissSoFar(tnSpec, tnProgress, tnMatches, tnByes)
    BY <1>1 DEF ScheduleInv
<1> DEFINE next == SwissRoundOf(tnSpec, tnProgress)
<1>6. \/ /\ tnOutcome' \in {"swiss_pairing_unavailable", "missing_game_seeds"}
         /\ UNCHANGED <<tnProgress, tnMatches, tnByes>>
      \/ /\ NoPairing \notin ToSet(next.pairs) /\ tnOutcome' = "scheduled" /\ tnMatches' = tnMatches \o next.matches
         /\ tnByes' = tnByes \cup ByesOfRound(next.bye, tnProgress.completed_rounds + 1)
         /\ \E gain \in [1..Len(next.pairs) -> 0..2] :
               tnProgress' = [completed_rounds |-> tnProgress.completed_rounds + 1,
                            standing |-> [e \in 1..tnSpec.n |-> tnProgress.standing[e] + Gained(next.pairs, gain, e)],
                            prior_pairings |-> tnProgress.prior_pairings \cup { ToSet(p) : p \in ToSet(next.pairs) },
                            prior_byes |-> tnProgress.prior_byes \cup next.bye,
                            balance |-> update_seat_balance(tnProgress.balance, next.matches)]
    <2>1. \/ tnOutcome' = "swiss_pairing_unavailable" /\ UNCHANGED <<tnProgress, tnMatches, tnByes>>
          \/ tnOutcome' = "missing_game_seeds" /\ UNCHANGED <<tnProgress, tnMatches, tnByes>>
          \/ /\ NoPairing \notin ToSet(next.pairs) /\ tnOutcome' = "scheduled" /\ tnMatches' = tnMatches \o next.matches
             /\ tnByes' = tnByes \cup { [round |-> tnProgress.completed_rounds + 1, entrant |-> e] : e \in next.bye }
             /\ \E gain \in [1..Len(next.pairs) -> 0..2] :
                    tnProgress' =
                        [completed_rounds |-> tnProgress.completed_rounds + 1,
                         standing |-> [e \in Entrants(tnSpec.n) |->
                             LET t == { i \in DOMAIN next.pairs : e \in ToSet(next.pairs[i]) }
                             IN tnProgress.standing[e]
                                + (IF t = {} THEN 2
                                   ELSE LET i == CHOOSE i \in t : TRUE
                                        IN IF e = next.pairs[i][1] THEN gain[i] ELSE 2 - gain[i])],
                         prior_pairings |-> tnProgress.prior_pairings
                                            \cup { ToSet(p) : p \in ToSet(next.pairs) },
                         prior_byes |-> tnProgress.prior_byes \cup next.bye,
                         balance |-> update_seat_balance(tnProgress.balance, next.matches)]
        BY DEF schedule_swiss_round
    <2> HIDE DEF next
    <2>2. tnOutcome' = "swiss_pairing_unavailable" \/ tnOutcome' = "missing_game_seeds"
             => tnOutcome' \in {"swiss_pairing_unavailable", "missing_game_seeds"}
        OBVIOUS
    <2> QED BY <2>1, <2>2, Zenon DEF ByesOfRound, Gained, Entrants
<1>3. next = SwissRoundOf(tnSpec, tnProgress)
    OBVIOUS
<1> HIDE DEF next
<1>4. CASE /\ tnOutcome' \in {"swiss_pairing_unavailable", "missing_game_seeds"}
           /\ UNCHANGED <<tnProgress, tnMatches, tnByes>>
    BY <1>1, <1>2, <1>4 DEF ScheduleInv
<1>5. ASSUME NoPairing \notin ToSet(next.pairs), tnOutcome' = "scheduled", tnMatches' = tnMatches \o next.matches,
             tnByes' = tnByes \cup ByesOfRound(next.bye, tnProgress.completed_rounds + 1),
             NEW gain \in [1..Len(next.pairs) -> 0..2],
             tnProgress' = [completed_rounds |-> tnProgress.completed_rounds + 1,
                            standing |-> [e \in 1..tnSpec.n |-> tnProgress.standing[e] + Gained(next.pairs, gain, e)],
                            prior_pairings |-> tnProgress.prior_pairings \cup { ToSet(p) : p \in ToSet(next.pairs) },
                            prior_byes |-> tnProgress.prior_byes \cup next.bye,
                            balance |-> update_seat_balance(tnProgress.balance, next.matches)]
      PROVE  ScheduleInv'
    <2>1. /\ SwissSpecOK(tnSpec) /\ tnProgress.completed_rounds \in Nat /\ tnProgress.standing \in [1..tnSpec.n -> Int]
          /\ MatchesUpto(tnMatches, tnSpec, tnProgress.completed_rounds)
          /\ ByesUpto(tnByes, tnProgress.prior_byes, tnSpec.n, tnProgress.completed_rounds)
          /\ BookedOnce(tnMatches, tnByes)
        BY <1>2 DEF SwissSoFar
    <2>2. SwissRoundOK(next, tnSpec, tnProgress)
        BY <1>3, <2>1, SwissRoundFacts
    <2>3. PICK c \in Nat, n \in Nat : c = tnProgress.completed_rounds /\ n = tnSpec.n
        BY <2>1 DEF SwissSpecOK
    <2>4. PICK k \in Nat : k = c + 1
        OBVIOUS
    <2>5. PICK bye : bye = next.bye
        OBVIOUS
    <2>6. PICK prior : prior = tnProgress.prior_byes
        OBVIOUS
    <2>7. /\ IsFiniteSet(bye) /\ (\A e \in bye : e \in prior => 1..n \subseteq prior)
          /\ RoundIsSound(next.matches, k, tnSpec, bye)
        BY <1>5, <2>2, <2>3, <2>4, <2>5, <2>6, Zenon DEF SwissRoundOK
    <2>8. MatchesUpto(tnMatches, tnSpec, c) /\ ByesUpto(tnByes, prior, n, c) /\ BookedOnce(tnMatches, tnByes)
        BY <2>1, <2>3, <2>6
    <2>9. PICK ms, byes : ms = tnMatches \o next.matches /\ byes = tnByes \cup ByesOfRound(bye, k)
        OBVIOUS
    <2>10. BookedOnce(ms, byes) /\ MatchesUpto(ms, tnSpec, k)
        BY <2>4, <2>7, <2>8, <2>9, BookingGrows
    <2>11. ByesUpto(byes, prior \cup bye, n, k)
        BY <2>4, <2>7, <2>8, <2>9, ByesGrow
    <2>12. tnMatches' = ms /\ tnByes' = byes
        BY <1>5, <2>3, <2>4, <2>5, <2>9
    <2>13. /\ tnProgress'.completed_rounds = k /\ tnProgress'.prior_byes = prior \cup bye
           /\ tnProgress'.standing = [e \in 1..n |-> tnProgress.standing[e] + Gained(next.pairs, gain, e)]
        BY <1>5, <2>3, <2>4, <2>5, <2>6
    <2>14. tnProgress'.standing \in [1..n -> Int]
        <3>1. PairsOff(next.pairs, ToSet(next.active), tnSpec.n \div 2)
            BY <1>5, <2>2 DEF SwissRoundOK, PairsAreRight
        <3>2. ASSUME NEW e \in 1..n
              PROVE  tnProgress.standing[e] + Gained(next.pairs, gain, e) \in Int
            <4>1. Gained(next.pairs, gain, e) \in Int
                BY <3>1, GainedIsWhole
            <4>2. tnProgress.standing[e] \in Int
                BY <2>1, <2>3
            <4> QED BY <4>1, <4>2
        <3> QED BY <2>13, <3>2
    <2>15. SwissSoFar(tnSpec', tnProgress', tnMatches', tnByes')
        BY <1>1, <2>1, <2>3, <2>10, <2>11, <2>12, <2>13, <2>14, Zenon DEF SwissSoFar
    <2> QED BY <1>1, <1>5, <2>15 DEF ScheduleInv
<1> QED BY <1>4, <1>5, <1>6

\* The invariant makes schedules sound.
LEMMA ScheduleInvIsSound == ScheduleInv => ScheduleIsSound
<1> SUFFICES ASSUME ScheduleInv
             PROVE  ScheduleIsSound
    OBVIOUS
<1>1. CASE tnSpec.kind = "static" /\ StaticSoFar(tnSpec, tnMatches, tnByes, tnOutcome)
    <2>1. RematchOnlyWhenForced /\ ByesRotate
        BY <1>1 DEF RematchOnlyWhenForced, ByesRotate
    <2>2. CASE tnOutcome = "scheduled"
        <3>1. StaticSpecOK(tnSpec) /\ tnMatches = StaticMatches(tnSpec) /\ tnByes = StaticByes(tnSpec)
            BY <1>1, <2>2 DEF StaticSoFar
        <3>2. PICK n \in Nat : n = tnSpec.n /\ n >= 2
            BY <3>1 DEF StaticSpecOK
        <3>3. PICK M \in Nat \ {0} : M = (n + (n % 2)) - 1
            BY <3>2
        <3>4. PICK T \in Nat \ {0} : T = n \div 2
            BY <3>2
        <3>5. PICK C, G : C = tnSpec.cycles /\ G = tnSpec.games
            OBVIOUS
        <3>6. StaticDone(n, M, T, C, G)
            BY <3>1, <3>2, <3>3, <3>4, <3>5 DEF StaticDone
        <3>7. ScheduleTypeOK /\ NoDoubleBooking /\ StaticIsComplete
            BY <2>2, <3>6, StaticSound
        <3> QED BY <2>1, <3>7 DEF ScheduleIsSound
    <2>3. CASE tnOutcome /= "scheduled"
        <3>1. tnMatches = <<>> /\ tnByes = {}
            BY <1>1, <2>3 DEF StaticSoFar
        <3>2. ScheduleTypeOK
            BY <3>1 DEF ScheduleTypeOK, ScheduleInv
        <3>3. NoDoubleBooking /\ StaticIsComplete
            BY <2>3, <3>1 DEF NoDoubleBooking, StaticIsComplete
        <3> QED BY <2>1, <3>2, <3>3 DEF ScheduleIsSound
    <2> QED BY <2>2, <2>3
<1>2. CASE tnSpec.kind = "swiss" /\ SwissSoFar(tnSpec, tnProgress, tnMatches, tnByes)
    <2>1. /\ SwissSpecOK(tnSpec) /\ tnProgress.completed_rounds \in Nat /\ tnProgress.standing \in [1..tnSpec.n -> Int]
          /\ MatchesUpto(tnMatches, tnSpec, tnProgress.completed_rounds)
          /\ ByesUpto(tnByes, tnProgress.prior_byes, tnSpec.n, tnProgress.completed_rounds)
          /\ BookedOnce(tnMatches, tnByes)
        BY <1>2 DEF SwissSoFar
    <2>2. NoDoubleBooking
        BY <2>1, Zenon DEF NoDoubleBooking, BookedOnce
    <2>3. StaticIsComplete
        BY <1>2 DEF StaticIsComplete
    <2>4. ScheduleTypeOK
        <3>1. \A i \in DOMAIN tnMatches :
                /\ tnMatches[i].one \in 1..tnSpec.n /\ tnMatches[i].two \in 1..tnSpec.n
                /\ tnMatches[i].profile \in 0..tnSpec.profiles - 1
                /\ tnMatches[i].table \in 1..tnSpec.n \div 2 /\ tnMatches[i].game \in 1..tnSpec.games
            BY <2>1, Zenon DEF MatchesUpto
        <3> QED BY <3>1 DEF ScheduleTypeOK, ScheduleInv, Entrants
    <2>5. RematchOnlyWhenForced
        <3>1. PICK next : next = SwissRoundOf(tnSpec, tnProgress)
            OBVIOUS
        <3>2. SwissRoundOK(next, tnSpec, tnProgress)
            BY <2>1, <3>1, SwissRoundFacts
        <3> QED BY <3>1, <3>2, Zenon DEF SwissRoundOK, PairsAreRight, RematchOnlyWhenForced
    <2>6. ByesRotate
        <3>1. PICK n \in Nat : n = tnSpec.n
            BY <2>1 DEF SwissSpecOK
        <3>2. \A e, f \in 1..n : Cardinality({ b \in tnByes : b.entrant = e }) >= 2
                                    => Cardinality({ b \in tnByes : b.entrant = f }) >= 1
            BY <2>1, <3>1, ByesAreFair
        <3> QED BY <3>1, <3>2, Zenon DEF ByesRotate, Entrants
    <2> QED BY <2>2, <2>3, <2>4, <2>5, <2>6 DEF ScheduleIsSound
<1> QED BY <1>1, <1>2 DEF ScheduleInv

\* ScheduleIsSound holds in every state, for every number of entrants, rounds,
\* cycles, games, profiles and seeds, and whatever the results.
THEOREM SchedulesAreSound == TournamentSpecification => []ScheduleIsSound
<1>1. TournamentInit => ScheduleInv
    BY ScheduleInit
<1>2. ScheduleInv /\ [TournamentNext]_tournamentVars => ScheduleInv'
    <2> SUFFICES ASSUME ScheduleInv, [TournamentNext]_tournamentVars
                 PROVE  ScheduleInv'
        OBVIOUS
    <2>1. CASE schedule
        BY <2>1, StaticStep
    <2>2. CASE schedule_swiss_round
        BY <2>2, SwissStep
    <2>3. CASE UNCHANGED tournamentVars
        BY <2>3 DEF ScheduleInv, tournamentVars
    <2> QED BY <2>1, <2>2, <2>3 DEF TournamentNext
<1>3. ScheduleInv => ScheduleIsSound
    BY ScheduleInvIsSound
<1> QED BY <1>1, <1>2, <1>3, PTL DEF TournamentSpecification

=============================================================================

----------------------------- MODULE MC_Backup -----------------------------
(* Instances of Backup for TLC. *)
EXTENDS Backup, TLC
CONSTANTS c1, c2, n1, NaN
MCOneName  == {n1, Unnamed}
MCOneGauge == {1}
MCWithNaN  == {1, NaN}
MCDeltas   == {1, 2}
MCOneDelta == {1}
MCFileIds  == 1 .. 7
\* A file left by an earlier run: one gauge and one counter.
MCEarlier  == {Add(Add(Empty, "gauge", n1, 1), "counter", n1, 1)}
MCOneCounter == {Add(Empty, "counter", n1, 1)}
MCJson     == {"update"}
MCAll      == AllRoutes
\* States that differ only in files nothing leads to are the same.
MCView == [vars EXCEPT ![5] = [f \in (InUse \cup {good}) \ {NoFile} |-> files[f]]]
\* With a shutdown only CleanExitKeepsEverything looks at the files: what is in
\* one matters while the path leads to it, and a job that writes another one only
\* has to end.  Nothing is said of a behaviour with nothing to lose, with a value
\* that cannot be encoded, or with a read behind an array, which a loop whose
\* array is too short comes to.
MCDoomed(j) == ~j.live /\ (j.pc = "pointer" \/ j.len > Len(j.frozen))
MCNothing   == ctxDone /\ \A k \in Kinds, n \in WithName : Lookup(atSignal, k, n) = Absent
MCExcepted  == wild \/ ~Encodable \/ MCNothing \/ \E b \in Backupers : MCDoomed(job[b])
MCJob(b) ==
    IF job[b].file # NoFile /\ job[b].file = cur THEN [job[b] EXCEPT !.file = TRUE]
    ELSE [job[b] EXCEPT !.file = FALSE, !.copy = <<>>, !.frozen = <<>>, !.live = TRUE]
MCShutdownView ==
    <<running, ctxDone, listening, rows, filling,
      IF cur = NoFile THEN NoFile ELSE files[cur].rows,
      [b \in Backupers |-> MCJob(b)], bounds, budget,
      [k \in Kinds |-> [n \in WithName |->
          IF ctxDone /\ Lookup(atSignal, k, n) # Absent THEN since[k][n] ELSE {}]]>>
MCAsyncView ==
    IF budget.signals = 0 THEN MCView
    ELSE IF MCExcepted THEN <<>> ELSE MCShutdownView
\* main and the final backup goroutine do the same.
MCFinals   == Permutations({final, main})
MCSymmetry == Permutations(Clients)

Budget(updates, signals, crashes, starts, faults) ==
    [updates |-> updates, signals |-> signals, crashes |-> crashes,
     starts |-> starts, faults |-> faults]

\* A shutdown without any update.
MCQuietShutdown == {Budget(0, 1, 0, 1, 0)}
\* One shutdown that an update races with; and periodic backups of two updates,
\* or, with a failing file operation, a crash and a restart, of one.
MCShutdownOrRotation ==
    {Budget(1, 1, 0, 1, 0), Budget(2, 0, 0, 1, 0), Budget(1, 0, 1, 2, 1)}
\* Synchronous mode, with a failing write: two updates, a crash and a restart; an
\* update, a shutdown and a restart.
MCSync == {Budget(2, 0, 1, 2, 1), Budget(1, 1, 0, 2, 1)}
=============================================================================

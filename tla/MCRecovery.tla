----------------------------- MODULE MCRecovery -----------------------------
(* Small instances of Recovery for TLC. *)
EXTENDS Recovery

Config(env, reuse, window, opens, writes, crashes, switches, compactions, errors, repairs) ==
  [env |-> env, reuse_logs |-> reuse, window |-> window, opens |-> opens, writes |-> writes,
   crashes |-> crashes, switches |-> switches, compactions |-> compactions,
   errors |-> errors, repairs |-> repairs]

SafeConfigs == {Config("posix", FALSE, TRUE, 3, 3, 2, 2, 1, 1, 0),
                Config("posix", TRUE, TRUE, 3, 3, 2, 1, 1, 1, 0),
                Config("posix", FALSE, TRUE, 3, 2, 1, 1, 1, 0, 2),
                Config("win", FALSE, FALSE, 3, 3, 2, 1, 1, 0, 0)}

WinConfigs == {Config("win", FALSE, TRUE, 4, 1, 1, 0, 0, 0, 0)}

\* The writes that clients see, in the order of their sequence numbers.
VARIABLE seen

Ordered(entries) ==
  LET Before(e, f) == e.seq < f.seq \/ (e.seq = f.seq /\ e.id < f.id)
      At(i) == CHOOSE e \in entries : Cardinality({f \in entries : Before(f, e)}) = i - 1
  IN  [i \in 1..Cardinality(entries) |-> At(i).id]

MCInit == Init /\ seen = <<>>
MCNext == Next /\ \E d \in {db'} : IF d.up THEN seen' = Ordered(Contents') ELSE UNCHANGED seen
MCSpec == MCInit /\ [][MCNext]_<<vars, seen>>

Promise == INSTANCE Durable WITH
  Ids <- 1..Max({c.writes : c \in Configs}), up <- db.up, contents <- seen, promised <- promised

\* Reopening brings back a beginning of the writes that clients saw, with every
\* promised one: no crash, failed edit, reused log or repair loses, reorders or
\* resurrects a write.
ImplementsDurable == Promise!Spec
=============================================================================

---------------------------- MODULE MCSubmission ----------------------------
(* A small instance of Submission.  r2 creates a queue in a project that   *)
(* was there or that r1 creates; the others use, change or remove what is  *)
(* there, before it is there, while it is used and when it is gone.        *)
EXTENDS Submission, TLC

CONSTANTS r1, r2, r3, r4, k1, p0

Ask(op, at, keys, cron) ==
  [op |-> op, at |-> at, name |-> None, ref |-> None, keys |-> keys, cron |-> cron]
Called(m, name) == [m EXCEPT !.name = name]
Naming(m, ref)  == [m EXCEPT !.ref = ref]

OnProjects == {Ask(op, p, <<>>, "none") : op \in {"updateProject", "removeProject"}, p \in {p0, r1}}
Adds(name) == {Called(Ask("createQueue", p, <<>>, "none"), name) : p \in {p0, r1}}
Edit       == Ask("updateQueue", r2, <<>>, "none")
OnQueue == {Ask("removeQueue", r2, <<>>, "none"), Edit, Called(Edit, "b"), Naming(Edit, Unknown)}
Crontab == {Ask("createScheduledJob", r2, <<>>, c) : c \in {"good", "bad", "bad zone"}}
Single(k)  == Ask("createJob", r2, <<k>>, "none")
Singles == {Single(k) : k \in {NoKey, EmptyKey, k1}}
             \cup {Naming(Single(k1), b) : b \in {Unknown, r3, r4}}
InBatch == {Ask("createBatch", r2, keys, "none") :
              keys \in {<<k1, NoKey>>, <<k1, k1>>, <<k1, Malformed>>}}

MCMenu ==
  r1 :> ({Ask("createProject", None, <<>>, "none")} \cup OnQueue \cup Crontab \cup Singles)
    @@ r2 :> Adds("a")
    @@ [r \in {r3, r4} |-> OnProjects \cup Adds("b") \cup OnQueue \cup Crontab \cup Singles \cup InBatch]

Twins == Permutations({r3, r4})
=============================================================================

-------------------------- MODULE MCGenerationServer --------------------------
(* Instances of GenerationServer for TLC.  The requests are interchangeable. *)
EXTENDS GenerationServer, TLC

Ask(kind, keep, continue) == [kind |-> kind, keep |-> keep, continue |-> continue]

\* Text generations, kept or not, jobs, and scoring.
TextAndJobs == {Ask("stream", TRUE, FALSE), Ask("stream", TRUE, TRUE),
                Ask("plain", TRUE, TRUE), Ask("plain", FALSE, FALSE),
                Ask("job", FALSE, FALSE), Ask("jev", FALSE, FALSE)}
Generations == {Ask("stream", TRUE, FALSE), Ask("plain", TRUE, FALSE), Ask("job", FALSE, FALSE)}
WithJev == {Ask("stream", FALSE, FALSE), Ask("jev", FALSE, FALSE)}

RequestSymmetry == Permutations(Requests)
===============================================================================

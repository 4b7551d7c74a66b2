----------------------------- MODULE MCDemoLayout -----------------------------
(* The layout of the repository, one foreign name beside each of its entries, *)
(* and every short command line.                                              *)
EXTENDS DemoLayout, SequencesExt

ParentOf == [p \in {"hello", "nested", "note", "other", "inner"} |->
               IF p \in {"note", "inner"} THEN "nested" ELSE "root"]

Short == SeqOf({"2", "--pause-seconds", "--sandbox-root", "--skip-stage-1", "--skip-stage-2",
                "--skip-sandbox-layout", "--help", "-h", "--bad"}, 2)

DashedWords == {"--pause-seconds", "--sandbox-root", "--launch-postgres", "--skip-sandbox-layout",
                "--skip-stage-1", "--skip-stage-2", "--skip-stage-3", "--help", "--bad"}
================================================================================

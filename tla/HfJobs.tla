---------------------------------- MODULE HfJobs ----------------------------------
(***************************************************************************)
(* An evaluation on Hugging Face Jobs: what the command line accepts       *)
(* (cli/args.rs), how it is laid over the configuration file               *)
(* (config/mod.rs), what is submitted, and what the bootstrap script does  *)
(* in the job (hf_jobs.rs).                                                *)
(*                                                                         *)
(* A configuration is [image, settings, correctness, cap], Absent where it *)
(* says nothing: `cap` is sweep.max_parallel_trials, and `settings` stands *)
(* for everything else that can be configured, "invalid" for what          *)
(* normalize refuses.  A request is                                        *)
(*   [kind, file, line, on, flavor, bucket, ref, url, dryRun]              *)
(* with `line` the overrides of the command line: those of a sweep are its *)
(* cap alone.  The file is not edited while the command runs.              *)
(***************************************************************************)
EXTENDS Naturals, Sequences, SequencesExt

CONSTANTS Absent, DefaultImage,
          Unsafe, \* a text with a blank, a quote, `$` and the like in it
          Parted, \* one without them, but with an operator of the shell: `;`, `&`, `|`
          Stub    \* the word that the shell reads at its beginning

ASSUME JobsAssumption == Absent \notin Nat

Nothing == [image |-> Absent, settings |-> Absent, correctness |-> Absent, cap |-> Absent]

Overlay(lower, higher) ==
    [f \in DOMAIN lower |-> IF higher[f] = Absent THEN lower[f] ELSE higher[f]]

\* merged_input; the cap of a sweep is laid over in the same way.
Input(file, line) == Overlay(IF file = Absent THEN Nothing ELSE file, line)

Valid(input) == input.settings # "invalid"

Normalize(input) ==
    Overlay([image |-> DefaultImage, settings |-> "default", correctness |-> TRUE, cap |-> Absent],
            input)

Asked(r) == Normalize(Input(r.file, r.line))

HasOverrides(r) == r.kind = "bench" /\ \E f \in DOMAIN Nothing \ {"image"} : r.line[f] # Absent

\* resolve_hf_jobs.
ResolvedJob(r) ==
    IF r.on = "local" THEN ~(r.flavor \/ r.bucket # Absent \/ r.ref)
    ELSE r.flavor /\ r.file # Absent /\ ~(r.ref /\ r.url) /\ ~HasOverrides(r)

\* validate_shell_safe: of what parts a line it refuses only some.
ShellSafe(value) == value # Unsafe

\* What the shell makes of a text in a bare position of its line.
ShellWord(text) == IF text = Parted THEN Stub ELSE text

\* submit: validation; only what enters the script has to be safe there.
Submittable(r) ==
    /\ ResolvedJob(r) /\ r.on = "hf-jobs" /\ Valid(Input(r.file, r.line))
    /\ r.bucket # "elsewhere"
    /\ r.kind = "bench" => ShellSafe(Asked(r).image)

\* What the job's own command line says, to its shell, besides its file.
Forwarded(r) ==
    [Nothing EXCEPT !.image = IF r.kind = "bench" THEN ShellWord(Asked(r).image) ELSE Absent,
                    !.cap   = IF r.kind = "sweep" THEN Asked(r).cap ELSE Absent]

\* build_bootstrap.
Script(r) ==
    (IF r.ref THEN <<"source", "compiler", "rustup", "build">> ELSE <<"download">>)
      \o <<"config">>
      \o (IF Asked(r).correctness THEN <<"tools">> ELSE <<>>)
      \o <<"evaluate", IF r.bucket # Absent THEN "copy" ELSE "print", "exit">>

Job(r) == [image |-> Asked(r).image, file |-> r.file, forwarded |-> Forwarded(r),
           mount |-> r.bucket, script |-> Script(r)]

\* What reaches Hugging Face; a dry run prints it.
Submission(r) == IF Submittable(r) /\ ~r.dryRun THEN <<Job(r)>> ELSE <<>>

\* Deliberate defect: the script stops at an evaluation that fails.
StopsThere(s, code) == [s EXCEPT !.evaluated = TRUE, !.rc = code,
                                 !.exit = IF code = 0 THEN Absent ELSE code]

\* ... || rc=$?
Evaluated(s, code) == [s EXCEPT !.evaluated = TRUE, !.rc = code]

\* One line of the script, under set -e.
ScriptLine(s, line, fails, code) ==
    IF s.exit # Absent THEN s
    ELSE CASE line = "evaluate"  -> Evaluated(s, code)
           [] line = "copy"      -> IF line \in fails THEN [s EXCEPT !.rc = IF @ = 0 THEN 1 ELSE @]
                                    ELSE [s EXCEPT !.delivered = TRUE]
           [] line = "print"     -> [s EXCEPT !.delivered = line \notin fails]
           [] line = "exit"      -> [s EXCEPT !.exit = s.rc]
           [] OTHER              -> [s EXCEPT !.exit = IF line \in fails THEN 1 ELSE Absent]

\* The job runs its script; `fails` are the lines that fail, `code` is what the
\* evaluation exits with.
JobRuns(job, fails, code) ==
    FoldLeft(LAMBDA s, line : ScriptLine(s, line, fails, code),
             [exit |-> Absent, rc |-> 0, evaluated |-> FALSE, delivered |-> FALSE], job.script)
-------------------------------------------------------------------------------
\* The image that is asked for stands on the job's command line as one word.
EntersWhole(r) == r.kind = "bench" => ShellWord(Asked(r).image) = Asked(r).image

\* If it does, the job evaluates what was validated here, in the very image its report will
\* name, with the tools its checks need; it succeeds if all of it did; it reports
\* a failed evaluation as that, also when the results cannot be copied; and
\* whatever was evaluated leaves its results behind, unless the transfer fails.
\* Of a line that an operator parts nothing is said here.
JobDoesWhatWasAsked(r, fails, code) ==
    EntersWhole(r) => \A i \in DOMAIN Submission(r) :
      LET job == Submission(r)[i]
          end == JobRuns(job, fails, code)
          inJob == Input(job.file, job.forwarded)
      IN  /\ Valid(inJob) /\ Normalize(inJob) = Asked(r) /\ job.image = Normalize(inJob).image
          /\ Contains(job.script, "tools") = Asked(r).correctness
          /\ end.exit = 0 <=> code = 0 /\ fails \cap ToSet(job.script) \subseteq {"print"}
          /\ end.evaluated /\ code # 0 => end.exit = code
          /\ end.delivered = (end.evaluated /\ fails \cap {"copy", "print"} \cap ToSet(job.script) = {})
          /\ r.bucket # Absent /\ end.exit = 0 => end.delivered
================================================================================

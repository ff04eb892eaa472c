------------------------------ MODULE MCCalculations ------------------------------
(* The calculations of the program, each over all inputs of a small size.  *)
(* A state is one input; nothing happens to it.                            *)
EXTENDS StreamSanitizer, BoundedLines, SweepExpansion, Ranking, CorrectnessGate, RunBrowser,
        HfJobs, Credentials, HostInspection

VARIABLE input

MCCanonical == [n \in {"tp", "a-b", "a_b", "c"} |-> IF n = "a_b" THEN "a-b" ELSE n]
MCSameKey   == ("flag" :> "")
MCBase      == [d \in {"tp", "a-b", "c"} |-> IF d = "tp" THEN "1" ELSE IF d = "c" THEN "x" ELSE Unset]

\* What stands for the lack of a name, or for an image id, is none of the names.
ASSUME InputsAssumption ==
    /\ Canonical \in [{"tp", "a-b", "a_b", "c"} -> {"tp", "a-b", "c"}]
    /\ NotSet \notin {"owner", "somebody"}
    /\ ImageId \notin [repo : {"r", "s", "d1", "d2"}, digest : {"r", "s", "d1", "d2", NotPinned}]

Texts(letters, n) == UNION {[1 .. k -> letters] : k \in 0 .. n}

\* A text, cut behind the given positions.
Cut(text, cuts) ==
    FoldLeft(LAMBDA chunks, i : IF i - 1 \in cuts THEN Append(chunks, <<text[i]>>)
                                ELSE [chunks EXCEPT ![Len(chunks)] = Append(@, text[i])],
             <<<<>>>>, [i \in 1 .. Len(text) |-> i])

\* Secrets of which one is the head of another, overlap, or repeat themselves.
SecretSets == {{<<"a", "b">>}, {<<"a">>, <<"a", "a", "b">>}, {<<"a", "b", "a">>, <<"b", "b">>}}

Streams ==
    \/ \E text \in Texts({"a", "b"}, 6), cuts \in SUBSET (1 .. 5), secrets \in SecretSets :
         input = [of |-> "stream", secrets |-> secrets, chunks |-> Cut(text, cuts)]
    \/ \E text \in [1 .. 5 -> {Esc, Bel, "]", "m", Backslash}], cut \in 1 .. 5 :
         input = [of |-> "stream", secrets |-> {<<"m", "m">>}, chunks |-> Cut(text, {cut})]
    \/ \E text \in [1 .. 4 -> {Esc, Bel, "[", "]", "P", "a", "b"}], cut \in 1 .. 4,
          secrets \in {{}, {<<"a", "b">>}} :
         input = [of |-> "stream", secrets |-> secrets, chunks |-> Cut(text, {cut})]

Requests ==
    \E text \in Texts({"x", Newline, Return}, 6), cuts \in SUBSET (1 .. 5) :
      input = [of |-> "request", buffers |-> Cut(text, cuts)]

SweepNames == {<<"tp">>, <<"tp", "c">>, <<"a-b", "a_b">>, <<"tp", "a_b", "c">>}
Lists      == {<<>>, <<"2">>, <<"2", "4">>, <<"2", "2", "4">>, <<"flag", "">>, <<"x", "flag", "">>}
Limits     == {0, 1, 2, 4, 6, 8, 27}
Caps       == {Absent, 0}

Sweeps ==
    \E names \in SweepNames, values \in [1 .. 3 -> Lists], maxTrials \in Limits,
       cap \in Caps :
      input = [of |-> "sweep", maxTrials |-> maxTrials, cap |-> cap,
               dimensions |-> [i \in DOMAIN names |-> [name |-> names[i], values |-> values[i]]]]

Rankings ==
    \E n \in 1 .. 3, ids \in {<<1, 2, 3>>, <<3, 1, 2>>, <<2, 1, 1>>}, lower \in BOOLEAN :
      \E statuses \in [1 .. n -> {"Passed", "None", "Failed"}],
         values \in [1 .. n -> {1, 2, NoValue}] :
        input = [of |-> "ranking", lower |-> lower,
                 observations |-> [i \in 1 .. n |-> [id |-> ids[i], status |-> statuses[i],
                                                     value |-> values[i]]]]

Documents ==
    {[kind |-> "results", scores |-> f] : f \in UNION {[T -> {1, 2, Unscored}] : T \in SUBSET Tasks}}
      \cup {[kind |-> "other"], [kind |-> "broken"]}

Gates ==
    \E n \in 0 .. 2 : \E docs \in [1 .. n -> Documents],
       parsers \in [Domains -> {NoParser, "", "hermes"}], works \in [Domains -> BOOLEAN] :
      input = [of |-> "gate", docs |-> docs, parsers |-> parsers, works |-> works]

Reports ==
    \E n \in 0 .. 5 : \E trials \in [1 .. n -> {"success", "failed"}] :
      \E best \in {NoTrial} \cup {i - 1 : i \in {k \in 1 .. n : trials[k] = "success"}} :
        input = [of |-> "report", report |-> [trials |-> trials, best |-> best]]

\* One step of the script or none fails, besides the transfer.
Failures == {F \cup G : F \in {{}, {"download"}, {"build"}, {"config"}, {"tools"}},
                        G \in SUBSET {"copy", "print"}}
Files == {Absent} \cup [image : {Absent, "one", Unsafe, Parted}, settings : {Absent, "set", "invalid"},
                       correctness : {Absent, FALSE}, cap : {Absent, 2}]
Overrides(kind) ==
    IF kind = "sweep" THEN [image : {Absent}, settings : {Absent}, correctness : {Absent}, cap : {Absent, 3}]
    ELSE [image : {Absent, "two", Unsafe}, settings : {Absent, "other"},
          correctness : {Absent, FALSE}, cap : {Absent}]

Jobs ==
    \E kind \in {"bench", "sweep"}, bucket \in {Absent, "bucket", "elsewhere"}, fails \in Failures,
       code \in {0, 3}, way \in {"plain", "ref", "url", "both", "dry", "local", "no flavor"}, file \in Files :
      \E line \in Overrides(kind) :
        input = [of |-> "job", fails |-> fails, code |-> code,
                 request |-> [kind |-> kind, file |-> file, line |-> line, bucket |-> bucket,
                              on |-> IF way = "local" THEN "local" ELSE "hf-jobs",
                              flavor |-> way # "no flavor", ref |-> way \in {"ref", "both"},
                              url |-> way \in {"url", "both"}, dryRun |-> way = "dry"]]

TokenFiles == {[is |-> i, text |-> "file"] : i \in {"missing", "unreadable", "directory", "public", "private"}}
                \cup {[is |-> "private", text |-> t] : t \in {"blank", "lines"}}

Tokens ==
    \E first \in {NotSet, "blank", "lines", "env1"}, second \in {NotSet, "blank", "lines", "env2"},
       files \in [1 .. 2 -> TokenFiles],
       commands \in [1 .. 2 -> {[ends |-> e, text |-> t] : e \in {"failed", "interrupted", "ok"},
                                                          t \in {"blank", "login"}}],
       submits \in BOOLEAN, key \in {"none", "key"} :
      input = [of |-> "token", environment |-> <<first, second>>, files |-> files,
               commands |-> commands, submits |-> submits, key |-> key]

EventKinds == [kind : {"complete", "error"},
               data : {"none", "broken", "empty", "accepted", "queued", "rejected", "other"}]

Answers ==
    \/ \E n \in 0 .. 3 : \E events \in [1 .. n -> EventKinds] : input = [of |-> "answer", events |-> events]
    \/ \E token \in {"none", "token"}, answer \in {"transport", "refused", "broken", "nameless", "owner"},
          commands \in [1 .. 2 -> {NotSet, "somebody"}], posted, got \in {"ok", "error"},
          event \in {"valid", "invalid"}, n \in 0 .. 1 : \E events \in [1 .. n -> EventKinds] :
         input = [of |-> "submission", token |-> token, answer |-> answer, commands |-> commands,
                  posted |-> posted, got |-> got, event |-> event, events |-> events]

Images ==
    \E repo \in {"r"}, digest \in {NotPinned, "d1"}, tagged, allowLocal \in BOOLEAN,
       repoDigests \in SUBSET [repo : {"r", "s"}, digest : {"d1", "d2"}] :
      input = [of |-> "image", reference |-> [repo |-> repo, digest |-> digest, tagged |-> tagged],
               repoDigests |-> repoDigests, allowLocal |-> allowLocal]

Reported(n) == [i \in 1 .. n |-> [index |-> <<"0", "1", "2">>[i], uuid |-> <<"A", "B", "C">>[i]]]

Hosts ==
    \E first, second \in {Failed} \cup {Reported(n) : n \in 0 .. 3}, gpus, k \in 0 .. 3 :
      \E devices \in [1 .. k -> {"0", "1", "2", "A", "B", "C", "other"}] :
        input = [of |-> "host", answers |-> <<first, second>>, devices |-> devices, gpus |-> gpus]

Memories ==
    \E n \in 1 .. 2, enabled, required \in BOOLEAN :
      \E documents \in [1 .. n -> {Failed} \cup [weights : 0 .. 2, cache : 0 .. 1, total : 0 .. 3]] :
        input = [of |-> "memory", enabled |-> enabled, required |-> required, documents |-> documents]

Init == \/ Jobs \/ Tokens \/ Answers \/ Images \/ Hosts \/ Memories
        \/ Streams \/ Requests \/ Sweeps \/ Rankings \/ Gates \/ Reports
Next == UNCHANGED input
Spec == Init /\ [][Next]_input
-------------------------------------------------------------------------------
\* What arrives in pieces is taken as a whole: what is shown of a child's output
\* does not depend on how its reads were cut, and no secret is in it; requests are
\* taken or refused by their own length; an answer of the leaderboard stands
\* however far its stream was read.
StreamsAreWhole ==
    /\ input.of = "stream"  => CutsDoNotMatter(input.secrets, input.chunks)
    /\ input.of = "request" => LinesAreWhole(input.buffers)
    /\ input.of = "answer"  => AnswersStand(input.events)

\* A sweep tries every combination of its values once.
SweepsAreComplete ==
    input.of = "sweep" =>
      TriesEveryCombination(MCBase, input.dimensions, input.maxTrials, input.cap)

\* The verdict on a server's correctness rests on a complete measurement.
VerdictsAreMeasured ==
    input.of = "gate" => VerdictIsMeasured(input.docs, input.parsers, input.works, 2)

\* A run, the ranking tool and both summaries of the run agree on who is best.
WinnersAgree ==
    /\ input.of = "ranking" => RankingAgrees(input.lower, input.observations)
    /\ input.of = "report"  => WinnerStaysListed(input.report)

\* An evaluation on Hugging Face Jobs is the one that was asked for here, if its
\* image enters the command line of the job as one word, and tells how it ended.
JobsDoWhatWasAsked ==
    input.of = "job" => JobDoesWhatWasAsked(input.request, input.fails, input.code)

\* What the preflight lets through is what the user meant: the first credential,
\* and no other; the image; the GPUs; what is known of the model's memory.
PreflightIsSound ==
    /\ input.of = "token" => UsesTheFirst(input.environment, input.files, input.commands,
                                         input.submits, input.key)
    /\ input.of = "submission" => SubmittedUnderAName(input.token, input.answer, input.commands,
                                     input.posted, input.event, input.got, input.events)
    /\ input.of = "image" => IdentityIsPinned(input.reference, input.repoDigests, input.allowLocal)
    /\ input.of = "host" => PoolIsSelected(input.answers, input.devices, input.gpus)
    /\ input.of = "memory" => MemoryIsKnown(input.enabled, input.required, input.documents)
================================================================================

-------------------------------- MODULE Credentials --------------------------------
(***************************************************************************)
(* Which Hugging Face token a run uses (leaderboard/auth.rs), under whose  *)
(* name it submits, and what it takes for the leaderboard's answer         *)
(* (leaderboard/client.rs).                                                *)
(*                                                                         *)
(* A text is "blank", "lines" (more than one line) or a token.  An         *)
(* environment variable is a text or NotSet, which also stands for one     *)
(* that is not Unicode: both are None (auth.rs:50-51).  A token file is    *)
(* [is, text], where `is` is "missing", "unreadable", "directory",         *)
(* "public" (its mode has bits for group or others) or "private".  A       *)
(* command is [ends, text], where `ends` is "failed", "interrupted" or     *)
(* "ok".                                                                   *)
(***************************************************************************)
EXTENDS Naturals, Sequences, SequencesExt, FiniteSets

CONSTANTS NotSet

\* Secret::new.
Secret(text) == IF text \in {"blank", "lines"} THEN "error" ELSE text

\* The first of the elements that settles the matter, as read by Read; or else.
FirstOf(seq, Settles(_), Read(_), else) ==
    LET settling == {i \in DOMAIN seq : Settles(seq[i])}
    IN  IF settling = {} THEN else
        ELSE Read(seq[CHOOSE i \in settling : \A j \in settling : i <= j])

\* resolve_token_from: a blank variable is none, a bad file is an error.
TokenFrom(environment, files) ==
    FirstOf(environment, LAMBDA v : v \notin {NotSet, "blank"}, Secret,
      FirstOf(files, LAMBDA f : f.is # "missing",
                     LAMBDA f : IF f.is = "private" THEN Secret(f.text) ELSE "error", "none"))

\* resolve_hf_token: the commands are asked where nothing else is found.
ResolveToken(environment, files, commands) ==
    LET token == TokenFrom(environment, files)
    IN  IF token # "none" THEN token
        ELSE FirstOf(commands, LAMBDA c : c.ends # "failed",
                     LAMBDA c : IF c.ends = "ok" THEN Secret(c.text) ELSE "interrupted", "none")

\* infer_hf_username: the owner of the token, if Hugging Face knows it, or else
\* who is logged in on this host.  An answer is "transport", "refused", "broken",
\* "nameless" or a name; a command gives NotSet or a name.
InferUsername(token, answer, commands) ==
    IF token = "none" \/ answer \in {"refused", "nameless"}
    THEN FirstOf(commands, LAMBDA c : c # NotSet, LAMBDA c : c, "error")
    ELSE IF answer \in {"transport", "broken"} THEN "error" ELSE answer

\* evaluation_preflight: what is redacted in everything the run shows.
Redactions(token, submits, key) ==
    ({token} \cup (IF submits THEN {key} ELSE {})) \ {"none"}

\* submit_report: what is sent to the leaderboard.
Sent(token, submits, key) == IF submits THEN {token, key} \ {"none"} ELSE {}

\* parse_submit_stream, over events of [kind, data]: data is "none", "broken" (no
\* array of strings), "empty", "accepted", "queued", "rejected" or "other".
ParseStream(events) ==
    FirstOf(events,
            LAMBDA e : e.kind = "complete" /\ e.data \in {"broken", "accepted", "queued", "rejected"},
            LAMBDA e : IF e.data \in {"accepted", "queued"} THEN e.data ELSE "error", "error")

\* submit_report and read_text_response: the report is posted, the answer names
\* an event, and the event's stream is read to its end, within the limit.
SubmitReport(posted, event, got, events) ==
    IF posted = "ok" /\ event = "valid" /\ got = "ok" THEN ParseStream(events) ELSE "error"

-------------------------------------------------------------------------------
\* A run uses the credential the user put first, or none, or says what is wrong
\* with it: a source that has something is never passed over for one behind it,
\* a command is not asked while another source has something, and no credential
\* leaves the process that is not redacted in what it shows.
UsesTheFirst(environment, files, commands, submits, key) ==
    LET token  == ResolveToken(environment, files, commands)
        named  == {i \in DOMAIN environment : environment[i] \notin {NotSet, "blank"}}
        kept   == {i \in DOMAIN files : files[i].is # "missing"}
        Least(S) == CHOOSE i \in S : \A j \in S : i <= j
    IN  /\ named # {} => token \in {environment[Least(named)], "error"}
        /\ named = {} /\ kept # {} => token \in {files[Least(kept)].text, "error"}
        /\ \A i \in kept : named = {} /\ token = files[i].text /\ i = Least(kept) => files[i].is = "private"
        /\ token \notin {"error", "interrupted"} =>
             Sent(token, submits, key) \subseteq Redactions(token, submits, key)

\* An answer that is taken for a success stays one however the rest of the stream
\* arrives; a whole event said so, and no refusal came before it.
AnswersStand(events) ==
    \A n \in 0 .. Len(events) :
      LET early == ParseStream(SubSeq(events, 1, n))
          Says(i, what) == events[i] = [kind |-> "complete", data |-> what]
      IN  early # "error" =>
            /\ ParseStream(events) = early
            /\ \E i \in 1 .. n : Says(i, early) /\ \A j \in 1 .. i : ~Says(j, "rejected")

\* A report is taken as submitted only if it was sent under a name, that of the
\* token's owner where Hugging Face knows it, and the leaderboard said so.
SubmittedUnderAName(token, answer, commands, posted, event, got, events) ==
    LET name == InferUsername(token, answer, commands)
    IN  name # "error" /\ SubmitReport(posted, event, got, events) # "error" =>
          /\ posted = "ok" /\ got = "ok" /\ events # <<>>
          /\ name \in {answer} \cup ToSet(commands)
          /\ name \notin {NotSet, "transport", "refused", "broken", "nameless"}
          /\ token # "none" /\ answer \notin {"refused", "nameless"} => name = answer
================================================================================

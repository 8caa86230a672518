------------------------------ MODULE RunSetup ------------------------------
(***************************************************************************)
(* How a run gets its parameters, what it knows of its host, and the       *)
(* replacements in its test suites (app.py, runner/__init__.py).  Jobs     *)
(* that run on one slave collect the facts of their hosts in one           *)
(* directory.                                                              *)
(***************************************************************************)
EXTENDS Integers, Sequences, FiniteSets

CONSTANTS
    Job,
    Flag, Text, \* parameters: those that are true or false, and the others
    Wiped,      \* those _save_params empties
    Starts,     \* how jobs are started
    File, Word,
    Own         \* the replacements of the framework itself, one after another

Param    == Flag \cup Text
Pairing(r) == {r.from, r.to} \subseteq Word
Started(s) ==
    /\ {"args", "environ", "build", "remote", "lines"} \subseteq DOMAIN s
    /\ DOMAIN s.args = Param /\ \A p \in Flag : s.args[p] \in BOOLEAN
    /\ Len(s.lines) \in Nat /\ DOMAIN s.lines = 1..Len(s.lines)
    /\ \A i \in DOMAIN s.lines :
           /\ s.lines[i].kind = "files" => s.lines[i].files \subseteq File
           /\ s.lines[i].kind = "pair" => Pairing(s.lines[i])

SetupAssumption ==
    /\ Flag \cap Text = {} /\ Wiped \subseteq Flag \cup Text
    /\ \A s \in Starts : Started(s)
    /\ Len(Own) \in Nat /\ DOMAIN Own = 1..Len(Own)
    /\ \A k \in DOMAIN Own : Own[k].files \subseteq File /\ Pairing(Own[k])

VARIABLES
    phase,   \* job -> where it is
    start,   \* job -> how it was started
    environ, \* job -> its CI_ variables
    settings,  \* job -> its parameters
    facts,   \* the directory of facts: whether it is there, and the hosts in it
    overlaps, \* jobs that collected facts at the same time as another one
    contents, \* job -> file -> words in it
    section  \* job -> own replacements done, the line to read, files of the section

vars == <<phase, start, environ, settings, facts, overlaps, contents, section>>

Absent == "absent"   \* no such parameter of the build
Hidden == "hidden"   \* a password, whose value Jenkins does not tell
Lost   == "lost"     \* no value could be read

\* Values of text: one word, one with a comment, of several lines, with the name
\* of a parameter there is not.  What ConfigParser reads of what it wrote:
Loaded(v) ==
    CASE v = "word ;more"  -> "word"
      [] v = "lines\n\nof" -> "lines\nof"
      [] v = "%(name)s"    -> Lost
      [] OTHER             -> v

Phases == {"new", "rerun", "params", "collect", "look", "open", "remove", "replace", "ready",
           "raised"}

TypeOK ==
    /\ phase \in [Job -> Phases] /\ overlaps \subseteq Job
    /\ facts \in [there : BOOLEAN, hosts : SUBSET Job] /\ (~facts.there => facts.hosts = {})
    /\ contents \in [Job -> [File -> SUBSET Word]]
    /\ \A j \in Job : /\ DOMAIN settings[j] = Param /\ \A p \in Flag : settings[j][p] \in BOOLEAN
                      /\ section[j].line \in 0..Len(start[j].lines) /\ section[j].files \subseteq File
                      /\ section[j].own \in 0..Len(Own)

Init ==
    /\ start \in [Job -> Starts] /\ phase = [j \in Job |-> "new"]
    /\ environ = [j \in Job |-> start[j].environ] /\ settings = [j \in Job |-> start[j].args]
    /\ facts = [there |-> FALSE, hosts |-> {}] /\ overlaps = {}
    /\ contents = [j \in Job |-> [f \in File |-> Word]]
    /\ section = [j \in Job |-> [own |-> 0, line |-> 0, files |-> {}]]

Goto(j, p) == phase' = [phase EXCEPT ![j] = p]

-----------------------------------------------------------------------------
(* Parameters. *)

\* _get_params and _process_params: what is set and not empty replaces what there
\* is; where that is true or false, by whether it is 'true'.
\* (Mutant: empty values replace too.)
BugMerged(old, env) == [p \in Param |-> IF p \in Flag THEN env[p] = "true" ELSE env[p]]
Merged(old, env) ==
    [p \in Param |-> CASE env[p] = "" -> old[p]
                       [] env[p] # "" /\ p \in Flag -> env[p] = "true"
                       [] OTHER -> env[p]]

GetParams(j) ==
    /\ phase[j] = "new"
    /\ settings' = [settings EXCEPT ![j] = Merged(@, environ[j])]
    /\ Goto(j, IF start[j].build = {} THEN "params" ELSE "rerun")
    /\ UNCHANGED <<start, environ, facts, overlaps, contents, section>>

\* _process_rerun: the parameters of the build go through a file into the
\* environment.  One without a value, and one that cannot be read, end the run.
Saved(p, v) == IF p \in Wiped THEN "" ELSE v
Of(b)       == CHOOSE build \in b : TRUE

\* (Mutant: variables that the environment has are kept.)
BugFromBuild(env, build) ==
    [p \in Param |-> IF env[p] # "" \/ build[p] = Absent THEN env[p] ELSE Loaded(Saved(p, build[p]))]
FromBuild(env, build) ==
    [p \in Param |-> IF build[p] = Absent THEN env[p] ELSE Loaded(Saved(p, build[p]))]

Rerun(j) ==
    /\ phase[j] = "rerun"
    /\ LET build == Of(start[j].build)
       IN IF \/ \E p \in Param : build[p] = Hidden
             \/ \E p \in Param \ Wiped : build[p] # Absent /\ Loaded(build[p]) = Lost
          THEN Goto(j, "raised") /\ UNCHANGED environ
          ELSE /\ environ' = [environ EXCEPT ![j] = FromBuild(@, build)]
               /\ Goto(j, "params")
    /\ UNCHANGED <<start, settings, facts, overlaps, contents, section>>

Process(j) ==
    /\ phase[j] = "params"
    /\ settings' = [settings EXCEPT ![j] = Merged(@, environ[j])]
    /\ Goto(j, IF start[j].remote THEN "collect" ELSE "replace")
    /\ UNCHANGED <<start, environ, facts, overlaps, contents, section>>

-----------------------------------------------------------------------------
(* collect_facts of get_dist: ansible writes a file per host into a fixed     *)
(* directory, which is removed as a whole.                                    *)

Collecting(j) == phase[j] \in {"look", "open", "remove"}

Collect(j) ==
    /\ phase[j] = "collect"
    /\ \E told \in {{j}, {}} : facts' = [there |-> TRUE, hosts |-> facts.hosts \cup told]
    /\ overlaps' = overlaps \cup UNION {{j, k} : k \in {i \in Job \ {j} : Collecting(i)}}
    /\ Goto(j, "look")
    /\ UNCHANGED <<start, environ, settings, contents, section>>

\* A host without a file is a KeyError, once the directory is removed.
\* (Mutant: whoever has found his file removes the directory, and reads then.)
BugLook(j) ==
    /\ phase[j] = "look"
    /\ facts' = [there |-> FALSE, hosts |-> {}]
    /\ Goto(j, "open")
    /\ UNCHANGED <<start, environ, settings, overlaps, contents, section>>
Look(j) ==
    /\ phase[j] = "look"
    /\ IF j \in facts.hosts
       THEN Goto(j, "open") /\ UNCHANGED facts
       ELSE Goto(j, "raised") /\ facts' = [there |-> FALSE, hosts |-> {}]
    /\ UNCHANGED <<start, environ, settings, overlaps, contents, section>>

\* What is open may be gone since it was looked for.
Open(j) ==
    /\ phase[j] = "open" /\ Goto(j, IF j \in facts.hosts THEN "remove" ELSE "raised")
    /\ UNCHANGED <<start, environ, settings, facts, overlaps, contents, section>>

Remove(j) ==
    /\ phase[j] = "remove" /\ Goto(j, IF facts.there THEN "replace" ELSE "raised")
    /\ facts' = [there |-> FALSE, hosts |-> {}]
    /\ UNCHANGED <<start, environ, settings, overlaps, contents, section>>

-----------------------------------------------------------------------------
(* prepare_replaces. *)

\* replace_pattern_in_file, in each of some files.
Replaced(t, files, from, to) ==
    [f \in File |-> IF f \in files /\ from \in t[f] THEN (t[f] \ {from}) \cup {to} ELSE t[f]]

Refuse(j) == Goto(j, "raised") /\ UNCHANGED section

\* replace() of the framework, one replacement after another: one of a file that is not
\* there raises, and those before it are made.
Framework(j) ==
    /\ phase[j] = "replace" /\ section[j].own < Len(Own)
    /\ LET r == Own[section[j].own + 1]
       IN IF r.files = {} THEN Refuse(j) /\ UNCHANGED contents
          ELSE /\ contents' = [contents EXCEPT ![j] = Replaced(@, r.files, r.from, r.to)]
               /\ section' = [section EXCEPT ![j].own = @ + 1] /\ UNCHANGED phase
    /\ UNCHANGED <<start, environ, settings, facts, overlaps>>

\* Without lines it returns directly.
FirstLine(j) ==
    /\ phase[j] = "replace" /\ section[j].own = Len(Own) /\ section[j].line = 0
    /\ IF start[j].lines = <<>> THEN Goto(j, "ready") /\ UNCHANGED section
       ELSE section' = [section EXCEPT ![j].line = 1] /\ UNCHANGED phase
    /\ UNCHANGED <<start, environ, settings, facts, overlaps, contents>>

\* What a line says: the files of a section, a replacement, a comment, or nothing
\* that is known.
Line(j)   == start[j].lines[section[j].line]
IsLine(j) == phase[j] = "replace" /\ section[j].line > 0
Step(j)   == IF section[j].line = Len(start[j].lines) THEN "ready" ELSE "replace"
NextLine(j, files) ==
    /\ Goto(j, Step(j))
    /\ section' = [section EXCEPT ![j].line = IF Step(j) = "ready" THEN @ ELSE @ + 1,
                                  ![j].files = files]

\* (Mutant: files of the sections before are kept.)
BugSection(j) ==
    /\ IsLine(j) /\ Line(j).kind = "files"
    /\ IF Line(j).files = {} THEN Refuse(j) ELSE NextLine(j, section[j].files \cup Line(j).files)
    /\ UNCHANGED <<start, environ, settings, facts, overlaps, contents>>
Section(j) ==
    /\ IsLine(j) /\ Line(j).kind = "files"
    /\ IF Line(j).files = {} THEN Refuse(j) ELSE NextLine(j, Line(j).files)
    /\ UNCHANGED <<start, environ, settings, facts, overlaps, contents>>

Replace(j) ==
    /\ IsLine(j) /\ Line(j).kind = "pair"
    /\ IF section[j].files = {} THEN Refuse(j) /\ UNCHANGED contents
       ELSE /\ contents' = [contents EXCEPT ![j] = Replaced(@, section[j].files, Line(j).from, Line(j).to)]
            /\ NextLine(j, section[j].files)
    /\ UNCHANGED <<start, environ, settings, facts, overlaps>>

Other(j) ==
    /\ IsLine(j) /\ Line(j).kind \in {"comment", "junk"}
    /\ IF Line(j).kind = "junk" THEN Refuse(j) ELSE NextLine(j, section[j].files)
    /\ UNCHANGED <<start, environ, settings, facts, overlaps, contents>>

Next == \E j \in Job :
    \/ GetParams(j) \/ Rerun(j) \/ Process(j)
    \/ Collect(j) \/ Look(j) \/ Open(j) \/ Remove(j)
    \/ Framework(j) \/ FirstLine(j) \/ Section(j) \/ Replace(j) \/ Other(j)

Spec == Init /\ [][Next]_vars

-----------------------------------------------------------------------------
(* What the code keeps. *)

Processed(j) == phase[j] \in {"collect", "look", "open", "remove", "replace", "ready"}

\* A run that repeats a build has its parameters: where the build has a value that
\* a file can hold, that one.  Only where it has none, or its value is one of
\* those Jenkins sets for a job, does the run keep its own, from the environment
\* before the command line.
RerunIsSame ==
    \A j \in Job : Processed(j) /\ start[j].build # {} =>
        LET build == Of(start[j].build)
            own   == Merged(start[j].args, start[j].environ)
        IN \A p \in Param :
               IF p \in Wiped \/ build[p] \in {Absent, ""} THEN settings[j][p] = own[p]
               ELSE settings[j][p] = IF p \in Flag THEN build[p] = "true" ELSE Loaded(build[p])

\* A run without a build to repeat has the environment's values, and where that
\* has none those of the command line.
OwnParams ==
    \A j \in Job : Processed(j) /\ start[j].build = {} =>
        \A p \in Param : IF start[j].environ[p] = "" THEN settings[j][p] = start[j].args[p]
                         ELSE settings[j][p] = IF p \in Flag THEN start[j].environ[p] = "true"
                                             ELSE start[j].environ[p]

\* A job whose host answered gets its facts, unless another job collected some at
\* the same time.
InformedStep ==
    \A j \in Job \ overlaps' : phase[j] \in {"open", "remove"} => phase'[j] # "raised"
AloneIsInformed == [][InformedStep]_vars

\* After the last line, no file has a word that a replacement of its section took
\* out, unless a later one brought it back; whatever else there is, is as it was.
PairsAreApplied ==
    \A j \in Job : phase[j] = "ready" =>
        LET lines == start[j].lines
            In(i) == CHOOSE k \in 1..i : /\ lines[k].kind = "files"
                                         /\ \A l \in (k + 1)..i : lines[l].kind # "files"
            Pairs(f) == {i \in DOMAIN lines : lines[i].kind = "pair" /\ f \in lines[In(i)].files}
        IN \A f \in File :
              /\ \A i \in Pairs(f) :
                    lines[i].from \in contents[j][f] =>
                        \E k \in Pairs(f) : k >= i /\ lines[k].to = lines[i].from
              /\ \A w \in Word \ {Own[k].from : k \in DOMAIN Own} :
                    w \notin contents[j][f] => \E i \in Pairs(f) : lines[i].from = w

=============================================================================

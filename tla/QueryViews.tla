----------------------------- MODULE QueryViews -----------------------------
(***************************************************************************)
(* The parts of the query pages that only compute what to show: the lists  *)
(* of stages and tasks taken from the tree of stages, the order and hosts  *)
(* of the task list, the stack trace of a failure (QueryDetail.jsx) and    *)
(* the query text of the list of queries (QueryList.jsx).                  *)
(*                                                                         *)
(* A stage is [id, tasks, subStages]; a task [stage, number, host, port];  *)
(* a failure [type, stack, suppressed, cause] where cause is a sequence of *)
(* at most one; a line of text [lead, body, trail], the lengths of its     *)
(* leading blanks, of the rest and of its trailing blanks.                 *)
(***************************************************************************)
EXTENDS Integers, Sequences, SequencesExt, FiniteSetsExt

CONSTANTS Stages, Failures, Texts,   \* the inputs
          MaxText                    \* how many characters of a text are shown, 300

\* One input at a time: [kind, value].
VARIABLE input

Init == \/ \E s \in Stages : input = [kind |-> "stage", value |-> s]
        \/ \E f \in Failures : input = [kind |-> "failure", value |-> f]
        \/ \E t \in Texts : input = [kind |-> "text", value |-> t]
-----------------------------------------------------------------------------
(* The lists of stages and of tasks. *)

RECURSIVE getStages(_)
getStages(stage) == << stage >> \o FlattenSeq([i \in DOMAIN stage.subStages |-> getStages(stage.subStages[i])])

RECURSIVE getTasksFromStage(_)
getTasksFromStage(stage) ==
    stage.tasks \o FlattenSeq([i \in DOMAIN stage.subStages |-> getTasksFromStage(stage.subStages[i])])

\* A task id without its query id, as numbers: << stage, number >>.
removeQueryId(task) == << task.stage, task.number >>

compareTaskId(a, b) ==
    LET idA == removeQueryId(a)
        idB == removeQueryId(b)
        differ == {i \in DOMAIN idA : idA[i] # idB[i]}
    IN  IF differ = {} THEN 0
        ELSE IF idA[Min(differ)] > idB[Min(differ)] THEN 1 ELSE -1

\* The table's default order.
TaskTable(tasks) == SortSeq(tasks, LAMBDA a, b : compareTaskId(a, b) < 0)

\* The port hostToPortNumber has for the host of task i when the loop reaches it.
KnownPort(tasks, i) ==
    LET before == {j \in 1..(i - 1) : tasks[j].host = tasks[i].host}
    IN  IF before = {} THEN tasks[i].port ELSE tasks[Max(before)].port

showPortNumbers(tasks) == \E i \in DOMAIN tasks : KnownPort(tasks, i) # tasks[i].port

\* What the host column says.
HostColumn(tasks) ==
    [i \in DOMAIN tasks |-> IF showPortNumbers(tasks) THEN << tasks[i].host, tasks[i].port >> ELSE << tasks[i].host >>]

-----------------------------------------------------------------------------
(* The stack trace of a failure. *)

\* How many frames the ends of two stacks have in common.
countSharedStackFrames(stack, parentStack) ==
    Max({n \in 0..Min({Len(stack), Len(parentStack)}) :
            \A k \in 0..(n - 1) : stack[Len(stack) - k] = parentStack[Len(parentStack) - k]})

\* mutant: a cause is shortened by the frames it shares with the failure's parent
RECURSIVE formatAgainstParent(_, _, _, _)
formatAgainstParent(info, parentStack, prefix, indent) ==
    LET shared == countSharedStackFrames(info.stack, parentStack)
    IN  << [indent |-> indent, prefix |-> prefix, type |-> info.type] >>
        \o [i \in 1..(Len(info.stack) - shared) |-> [indent |-> indent, at |-> info.stack[i]]]
        \o (IF shared # 0 THEN << [indent |-> indent, more |-> shared] >> ELSE << >>)
        \o FlattenSeq([i \in DOMAIN info.suppressed |->
               formatAgainstParent(info.suppressed[i], info.stack, "Suppressed: ", indent + 1)])
        \o FlattenSeq([i \in DOMAIN info.cause |-> formatAgainstParent(info.cause[i], parentStack, "Caused by: ", indent)])

RECURSIVE formatStackTraceHelper(_, _, _, _)
formatStackTraceHelper(info, parentStack, prefix, indent) ==
    LET shared == countSharedStackFrames(info.stack, parentStack)
    IN  << [indent |-> indent, prefix |-> prefix, type |-> info.type] >>
        \o [i \in 1..(Len(info.stack) - shared) |-> [indent |-> indent, at |-> info.stack[i]]]
        \o (IF shared # 0 THEN << [indent |-> indent, more |-> shared] >> ELSE << >>)
        \o FlattenSeq([i \in DOMAIN info.suppressed |->
               formatStackTraceHelper(info.suppressed[i], info.stack, "Suppressed: ", indent + 1)])
        \o FlattenSeq([i \in DOMAIN info.cause |-> formatStackTraceHelper(info.cause[i], info.stack, "Caused by: ", indent)])

formatStackTrace(info) == formatStackTraceHelper(info, << >>, "", 0)

-----------------------------------------------------------------------------
(* The text of a query in the list. *)

\* The smallest indentation of the lines that are not blank, -1 if all are.
minLeadingWhitespace(lines) ==
    LET leads == {lines[i].lead : i \in {j \in DOMAIN lines : lines[j].body > 0}}
    IN  IF leads = {} THEN -1 ELSE Min(leads)

\* What is left of a line: its indentation and its text, without trailing blanks.
trimmedLine(line, min) ==
    [lead |-> IF line.body = 0 THEN 0 ELSE line.lead - Max({min, 0}), body |-> line.body]

\* The first characters of a text, and whether there are more, for which it has dots.
\* Every line but the last of the query ends with a line break.
Characters(lines) == FoldSeq(LAMBDA line, sum : line.lead + line.body + line.break + sum, 0, lines)
Beginning(line, length) ==
    LET lead == Min({line.lead, length}) IN [lead |-> lead, body |-> Min({line.body, length - lead})]
truncateString(lines, length) ==
    LET Room(i) == length - Characters(SubSeq(lines, 1, i - 1))
        begun == {i \in DOMAIN lines : Room(i) > 0}
    IN  [lines |-> [i \in begun |-> Beginning(lines[i], Room(i))], dots |-> Characters(lines) > length]

stripQueryTextWhitespace(lines) ==
    LET Trimmed(i) == trimmedLine(lines[i], minLeadingWhitespace(lines)) @@ [break |-> IF i < Len(lines) THEN 1 ELSE 0]
    IN  truncateString(SelectSeq([i \in DOMAIN lines |-> Trimmed(i)], LAMBDA line : line.lead + line.body > 0), MaxText)

-----------------------------------------------------------------------------
(* Properties. *)

\* The stage list and the task list come from the same tree by different walks: each
\* task is in the task list once, under a stage of the stage list.
ListsAgree ==
    input.kind = "stage" =>
        LET stages == getStages(input.value)
            tasks == getTasksFromStage(input.value)
        IN  /\ FoldSeq(LAMBDA st, sum : Len(st.tasks) + sum, 0, stages) = Len(tasks)
            /\ \A i \in DOMAIN stages : ToSet(stages[i].tasks) \subseteq ToSet(tasks)
            /\ Cardinality({stages[i].id : i \in DOMAIN stages}) = Len(stages)

\* compareTaskId puts the tasks in the order of their numbers, not of their digits,
\* stage by stage, so the table is sorted whatever order the tree lists them in.
TaskTableIsSorted ==
    input.kind = "stage" =>
        LET table == TaskTable(getTasksFromStage(input.value))
        IN  \A i, j \in DOMAIN table :
                i < j => \/ table[i].stage < table[j].stage
                         \/ table[i].stage = table[j].stage /\ table[i].number < table[j].number

\* Two tasks that run on different workers look different in the host column.
WorkersAreTellable ==
    input.kind = "stage" =>
        LET tasks == getTasksFromStage(input.value)
        IN  \A i, j \in DOMAIN tasks :
                HostColumn(tasks)[i] = HostColumn(tasks)[j]
                    => tasks[i].host = tasks[j].host /\ tasks[i].port = tasks[j].port

\* A failure, what it suppressed and what caused it, in the order of the trace.
RECURSIVE Unfolded(_)
Unfolded(info) ==
    << [type |-> info.type, stack |-> info.stack] >>
    \o FlattenSeq([i \in DOMAIN info.suppressed |-> Unfolded(info.suppressed[i])])
    \o FlattenSeq([i \in DOMAIN info.cause |-> Unfolded(info.cause[i])])

\* How a reader takes a trace apart: line i opens a failure; the lines up to the
\* next one are its frames; "... n more" are the last n of the failure around it.
Opens(lines) == {i \in DOMAIN lines : "type" \in DOMAIN lines[i]}
Around(lines, i) ==
    Max({j \in Opens(lines) : j < i /\ lines[j].indent =
            IF lines[i].prefix = "Suppressed: " THEN lines[i].indent - 1 ELSE lines[i].indent})
RECURSIVE ReadStack(_, _)
ReadStack(lines, i) ==
    LET next == Min({j \in Opens(lines) : j > i} \cup {Len(lines) + 1})
        own == SubSeq(lines, i + 1, next - 1)
        frames == SelectSeq(own, LAMBDA l : "at" \in DOMAIN l)
        mores == SelectSeq(own, LAMBDA l : "more" \in DOMAIN l)
    IN  [k \in DOMAIN frames |-> frames[k].at]
        \o (IF mores = << >> THEN << >>
            ELSE LET outer == ReadStack(lines, Around(lines, i))
                 IN  SubSeq(outer, Max({1, Len(outer) - mores[1].more + 1}), Len(outer)))

\* Nothing is lost in a stack trace: from its lines a reader gets back the stack of
\* the failure and of everything it suppressed or was caused by.
TraceIsReadable ==
    input.kind = "failure" =>
        LET lines == formatStackTrace(input.value)
            opens == SetToSortSeq(Opens(lines), <)
        IN  [k \in DOMAIN opens |-> [type |-> lines[opens[k]].type, stack |-> ReadStack(lines, opens[k])]]
                = Unfolded(input.value)

\* The text of a query keeps its lines, in order, with their indentation relative to
\* each other, and starts at the left margin; blank lines are gone.  It has dots when it
\* was cut, and then the lines before the last one are still complete, and no character
\* that there was room for is missing.
TextKeepsItsShape ==
    input.kind = "text" =>
        LET shown == stripQueryTextWhitespace(input.value)
            lines == shown.lines
            kept == SelectSeq(input.value, LAMBDA line : line.body > 0)
            last == Len(lines)
            whole == {i \in DOMAIN lines : i < last \/ ~shown.dots}
            length == FoldSeq(LAMBDA line, sum : line.lead + line.body + sum, 0, lines) + last
        IN  /\ ~shown.dots => last = Len(kept) /\ (lines # << >> => \E i \in whole : lines[i].lead = 0)
            /\ \A i \in whole : lines[i].body = kept[i].body /\ lines[i].lead >= 0
            /\ \A i, j \in whole : lines[i].lead - lines[j].lead = kept[i].lead - kept[j].lead
            /\ shown.dots => last \in 1..Len(kept) /\ lines[last].body <= kept[last].body /\ length \in MaxText..(MaxText + 1)
=============================================================================

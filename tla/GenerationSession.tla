-------------------------- MODULE GenerationSession --------------------------
(***************************************************************************)
(* A generation session: `generate` decomposes the requested span into     *)
(* periods, generates them one after the other into directories of their   *)
(* own and writes session.dss; `generate --append` resumes from that file  *)
(* and adds months.  Commands run one at a time, anything may fail, and    *)
(* the process may die at any step.                                        *)
(*                                                                         *)
(* A date is a month, counted from the January of some year, and a day of  *)
(* it.  A balance is the net of the income statement accounts.  Of a       *)
(* directory it is kept which period it holds.                             *)
(***************************************************************************)
EXTENDS Integers, Sequences

CONSTANTS
  Configs,      \* the configurations a user may pass
  AppendMonths, \* the values of --months
  MonthLengths, \* the days of the months, over and over
  PurchaseOrders \* purchase orders of a period

ASSUME CalendarAssumption == MonthLengths \in Seq(Nat \ {0}) /\ MonthLengths # <<>>

DaysIn(month) == MonthLengths[(month % Len(MonthLengths)) + 1]
Dates == {d \in [month : Nat, day : Nat \ {0}] : d.day <= DaysIn(d.month)}

(* stable: no map with two entries, so the config serialises in one way.   *)
ASSUME ConfigsAssumption ==
  /\ Configs # {}
  /\ Configs \subseteq [volume : Nat, start : Dates, total : Nat \ {0},
                        fiscalYear : Nat \ {0}, stable : BOOLEAN]
  /\ \A c \in Configs : c.fiscalYear <= c.total
ASSUME NumbersAssumption ==
  AppendMonths \subseteq Nat \ {0} /\ PurchaseOrders \in Nat

VARIABLES
  pc,       \* what the command is doing
  command,  \* its kind, its config and the cursor it began with
  periods,  \* the periods of the session in memory
  state,    \* SessionState in memory
  disk,     \* the period directories
  file,     \* session.dss: none, torn or saved
  saved,    \* what a saved session.dss holds
  answer    \* how the last command ended

session == <<command, periods, state>>
vars == <<pc, session, disk, file, saved, answer>>

-----------------------------------------------------------------------------
(* GenerationPeriod::compute_periods, add_months. *)

MinOf(a, b) == IF a < b THEN a ELSE b

(* A day that the target month does not have is moved back to its last.    *)
AddMonths(d, n) == [month |-> d.month + n, day |-> MinOf(d.day, DaysIn(d.month + n))]

DayBefore(d) ==
  IF d.day = 1 THEN [month |-> d.month - 1, day |-> DaysIn(d.month - 1)]
  ELSE [d EXCEPT !.day = @ - 1]

(* The cursor of the loop when it comes to period i: what was lost of the  *)
(* day in a short month stays lost.                                        *)
PeriodStart(start, fiscalYear, i) ==
  LET cursor[k \in 1..i] == IF k = 1 THEN start ELSE AddMonths(cursor[k - 1], fiscalYear)
  IN  cursor[i]

PlanOverrun(first, start, total, fiscalYear) ==
  [i \in 1..((total + fiscalYear - 1) \div fiscalYear) |->
     [index |-> first + i - 1,
      start |-> PeriodStart(start, fiscalYear, i),
      months |-> fiscalYear]]
Plan(first, start, total, fiscalYear) ==
  [i \in 1..((total + fiscalYear - 1) \div fiscalYear) |->
     [index |-> first + i - 1,
      start |-> PeriodStart(start, fiscalYear, i),
      months |-> MinOf(fiscalYear, total - (i - 1) * fiscalYear)]]

EndDate(p) == DayBefore(AddMonths(p.start, p.months))

BasePlan(c) == Plan(0, c.start, c.total, c.fiscalYear)

(* generate_delta: the new periods begin a month after the last day, and   *)
(* their indices go on from the base plan that resume computed.            *)
DeltaPlan(c, months) ==
  LET base == BasePlan(c)
  IN  Plan(Len(base), AddMonths(EndDate(base[Len(base)]), 1), months, c.fiscalYear)

(* The directory of a period is named after the year it begins in.         *)
LabelOfRoot(p) == 0
Label(p) == p.start.month \div 12

-----------------------------------------------------------------------------

Fresh == [cursor |-> 0, balance |-> 0, retained |-> 0, nextPo |-> 0, log |-> <<>>]
NoCommand == [kind |-> "none", config |-> CHOOSE c \in Configs : TRUE, from |-> 0]

Init ==
  /\ pc = "idle" /\ command = NoCommand /\ periods = <<>> /\ state = Fresh
  /\ disk = {} /\ file = "none" /\ saved = [state |-> Fresh, config |-> NoCommand.config]
  /\ answer = "none"

(* The process is gone: what it had in memory is lost. *)
End(how) ==
  /\ pc' = "idle" /\ answer' = how
  /\ command' = NoCommand /\ periods' = <<>> /\ state' = Fresh

Start(kind, c, plan, s) ==
  /\ pc' = "running"
  /\ command' = [kind |-> kind, config |-> c, from |-> s.cursor]
  /\ periods' = plan /\ state' = s
  /\ UNCHANGED answer

(* generate: a session if the config has more than one period. *)
Generate(c) ==
  /\ pc = "idle"
  /\ IF c.fiscalYear < c.total
       THEN Start("generate", c, BasePlan(c), Fresh)
       ELSE /\ pc' = "standard"
            /\ command' = [kind |-> "generate", config |-> c, from |-> 0]
            /\ UNCHANGED <<periods, state, answer>>
  /\ UNCHANGED <<disk, file, saved>>

(* The single-period path writes to the output directory itself.           *)
StandardDone ==
  /\ pc = "standard"
  /\ End("done")
  /\ UNCHANGED <<disk, file, saved>>

(* generate --append: GenerationSession::resume, then generate_delta. The  *)
(* hash of a config with larger maps may differ from process to process.   *)
HashMayMatch(c) == c = saved.config
HashMayDiffer(c) == c # saved.config \/ ~c.stable

ResumeAnyConfig(c, months) ==
  /\ pc = "idle" /\ file = "saved"
  /\ Start("append", c, BasePlan(c) \o DeltaPlan(c, months), saved.state)
  /\ UNCHANGED <<disk, file, saved>>
Resume(c, months) ==
  /\ pc = "idle" /\ file = "saved" /\ HashMayMatch(c)
  /\ Start("append", c, BasePlan(c) \o DeltaPlan(c, months), saved.state)
  /\ UNCHANGED <<disk, file, saved>>

ConfigRefused(c) ==
  /\ pc = "idle" /\ file = "saved" /\ HashMayDiffer(c)
  /\ End(IF c = saved.config THEN "refused" ELSE "config changed")
  /\ UNCHANGED <<disk, file, saved>>

AppendImpossible ==
  /\ pc = "idle" /\ file # "saved" /\ AppendMonths # {}
  /\ End("error")
  /\ UNCHANGED <<disk, file, saved>>

-----------------------------------------------------------------------------
(* generate_next_period. *)

Period == periods[state.cursor + 1]

Directory(p, c, complete) ==
  [label |-> Label(p), period |-> p, config |-> c, complete |-> complete]

Put(dirs, d) == {e \in dirs : e.label # d.label} \cup {d}

BeginPeriod ==
  /\ pc = "running" /\ state.cursor < Len(periods)
  /\ disk' = Put(disk, Directory(Period, command.config, FALSE))
  /\ pc' = "writing"
  /\ UNCHANGED <<session, file, saved, answer>>

(* The net of a period: any function of what determines its generation.    *)
Income(c, p) == p.index + p.months * c.volume

CarryWithoutCursor(s, c, p) ==
  [s EXCEPT !.log = IF @ = <<>> THEN <<Label(p)>> ELSE @]
CarryForward(s, c, p) ==
  LET balance == s.balance + Income(c, p)
  IN  [cursor |-> s.cursor + 1, balance |-> balance, retained |-> s.retained + balance,
       nextPo |-> s.nextPo + PurchaseOrders, log |-> Append(s.log, Label(p))]

FinishPeriod ==
  /\ pc = "writing"
  /\ disk' = Put(disk, Directory(Period, command.config, TRUE))
  /\ state' = CarryForward(state, command.config, Period)
  /\ pc' = "running"
  /\ UNCHANGED <<command, periods, file, saved, answer>>

AllGenerated ==
  /\ pc = "running" /\ state.cursor >= Len(periods)
  /\ pc' = "saving"
  /\ UNCHANGED <<session, disk, file, saved, answer>>

(* save: fs::write truncates the file and then writes it. *)
Truncate ==
  /\ pc = "saving"
  /\ file' = "torn"
  /\ pc' = "truncated"
  /\ UNCHANGED <<session, disk, saved, answer>>

Write ==
  /\ pc = "truncated"
  /\ file' = "saved"
  /\ saved' = [state |-> state, config |-> command.config]
  /\ End("done")
  /\ UNCHANGED disk

(* A step fails and the command ends with an error, or the process dies.   *)
FailOrDie ==
  /\ pc # "idle"
  /\ \E how \in {"error", "died"} : End(how)
  /\ UNCHANGED <<disk, file, saved>>

Work == BeginPeriod \/ FinishPeriod \/ AllGenerated \/ Truncate \/ Write \/ StandardDone

Next ==
  \/ \E c \in Configs : Generate(c) \/ ConfigRefused(c) \/ \E m \in AppendMonths : Resume(c, m)
  \/ AppendImpossible
  \/ Work
  \/ FailOrDie

Spec == Init /\ [][Next]_vars

(* A running process makes progress. *)
FairSpec == Spec /\ WF_vars(Work)

-----------------------------------------------------------------------------

Periods == [index : Nat, start : Dates, months : Nat \ {0}]
States == [cursor : Nat, balance : Nat, retained : Nat, nextPo : Nat, log : Seq(Nat)]
Directories ==
  [label : Nat, period : Periods, config : Configs, complete : BOOLEAN]

(* Every variable keeps its type. *)
TypeOK ==
  /\ pc \in {"idle", "standard", "running", "writing", "saving", "truncated"}
  /\ command \in [kind : {"none", "generate", "append"}, config : Configs, from : Nat]
  /\ periods \in Seq(Periods)
  /\ state \in States
  /\ disk \in SUBSET Directories
  /\ file \in {"none", "torn", "saved"}
  /\ saved \in [state : States, config : Configs]
  /\ answer \in {"none", "done", "error", "died", "refused", "config changed"}

(* The periods of a new session follow one another without gap or overlap  *)
(* from the first day of the span, also where add_months moved a day back; *)
(* they never reach past the span and end in the month it ends in.  They   *)
(* end on its last day if every month has the day that the span begins on: *)
(* otherwise the days lost in a short month are missing at the end.        *)
DayAfter(d) ==
  IF d.day = DaysIn(d.month) THEN [month |-> d.month + 1, day |-> 1]
  ELSE [d EXCEPT !.day = @ + 1]
FollowOneAnother(ps) == \A i \in 1..Len(ps) - 1 : ps[i + 1].start = DayAfter(EndDate(ps[i]))
InEveryMonth(day) == \A i \in DOMAIN MonthLengths : day <= MonthLengths[i]

Covers(ps, first, after) ==
  LET end == DayAfter(EndDate(ps[Len(ps)]))
  IN  /\ FollowOneAnother(ps) /\ ps[1].start = first
      /\ end.month = after.month /\ end.day <= after.day
      /\ InEveryMonth(first.day) => end = after
PlanCoversSpan ==
  command.kind = "generate" /\ periods # <<>> =>
    LET c == command.config IN Covers(periods, c.start, AddMonths(c.start, c.total))

(* compute_periods: "A Vec<GenerationPeriod> covering the entire span",    *)
(* its last day included, whatever day the span begins on.                 *)
PlanCoversEntireSpan ==
  command.kind = "generate" /\ periods # <<>> =>
    DayAfter(EndDate(periods[Len(periods)])) = AddMonths(command.config.start, command.config.total)

(* The same of a session that is extended: it "decomposes the total        *)
(* requested time span into fiscal-year-aligned periods".                  *)
PeriodsFollowOneAnother == FollowOneAnother(periods)

(* Whatever was interrupted or repeated before, session.dss and the state  *)
(* in memory describe one run over the first cursor periods: the log, the  *)
(* balances and the document counters all speak of the same periods of the *)
(* same config.                                                            *)
NetOf(c, ps, count) ==
  LET net[n \in 0..count] == IF n = 0 THEN 0 ELSE net[n - 1] + Income(c, ps[n])
  IN  net[count]
Describes(s, c, ps) ==
  /\ Len(s.log) = s.cursor /\ s.nextPo = s.cursor * PurchaseOrders
  /\ s.cursor <= Len(ps) =>
       /\ s.log = [i \in 1..s.cursor |-> Label(ps[i])]
       /\ s.balance = NetOf(c, ps, s.cursor)
StateDescribesPeriods ==
  /\ pc \in {"running", "writing", "saving", "truncated"} => Describes(state, command.config, periods)
  /\ file = "saved" => Describes(saved.state, saved.config, BasePlan(saved.config))

(* When a command is about to save, every period it generated is complete  *)
(* on disk, and no two periods of the session, those of the config and     *)
(* those it appends, go by the same directory: if each period of the       *)
(* config is a year or longer.                                             *)
YearLong(c) == \A i \in DOMAIN BasePlan(c) : BasePlan(c)[i].months >= 12
NamesDiffer(ps) == \A i, j \in 1..Len(ps) : Label(ps[i]) = Label(ps[j]) => i = j
CompleteOnDisk(p) == \E d \in disk : d.period = p /\ d.config = command.config /\ d.complete
OneDirectoryPerPeriod ==
  pc = "saving" /\ YearLong(command.config) =>
    /\ NamesDiffer(periods)
    /\ \A i \in command.from + 1..Len(periods) : CompleteOnDisk(periods[i])

(* OutputMode::MultiPeriod: "One sub-directory per period", whatever the   *)
(* lengths of the periods.                                                 *)
OneSubdirectoryPerPeriod == pc = "saving" => NamesDiffer(periods)

(* generate_all ends: a command that is not interrupted comes to its end.  *)
CommandsEnd == (pc # "idle") ~> (pc = "idle")

(* --append adds data to the existing output: when it is about to save,    *)
(* the directories of all periods are complete and of one config.          *)
AppendedOutputIsWhole ==
  pc = "saving" /\ command.kind = "append" =>
    \A i \in 1..command.from :
      \E d \in disk : d.label = state.log[i] /\ d.config = command.config /\ d.complete

(* `--append --months N` "adds more periods to an existing session".       *)
AppendAddsPeriods == pc = "saving" => state.cursor > command.from

(* SessionState "can be checkpointed to disk and resumed later (e.g. after *)
(* a crash ...)": an append, however it ends, leaves a readable session.dss.    *)
AppendLeavesCheckpoint ==
  [][command.kind = "append" /\ pc' = "idle" => file' = "saved"]_vars
=============================================================================

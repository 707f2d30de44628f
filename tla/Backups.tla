------------------------------- MODULE Backups -------------------------------
(***************************************************************************)
(* The stored backups (backup_service, tasks/scheduler): the configuration *)
(* in the table settings, the backup job of the scheduler in memory, and   *)
(* the directory of backup files, each with a metadata file beside it.     *)
(*                                                                         *)
(* One process, one event loop: a request or a job runs undisturbed from   *)
(* one await to the next.  The directory is only touched between awaits,   *)
(* but the counts for the metadata are awaited after the backup file has   *)
(* been written.                                                           *)
(***************************************************************************)
EXTENDS Naturals, FiniteSets

CONSTANTS
    Schedules,      \* cron expressions that croniter.is_valid accepts
    OddSchedules,   \* those of them that CronTrigger.from_crontab refuses ("@daily")
    DefaultConfig,  \* BackupConfig(): disabled, without password
    AskedConfigs,   \* what updates ask for; NotGiven for an optional field
    MaxBackups,     \* bound: backups that are ever written
    MaxUpdates,     \* bound: updates of the configuration that are begun
    BackupTasks,    \* requests and scheduled runs at the same time
    NotGiven, NoJob

Config == [enabled: BOOLEAN, schedule: Schedules, retention: Nat \ {0}, password: BOOLEAN]

ASSUME BackupAssumptions ==
    /\ OddSchedules \subseteq Schedules
    /\ DefaultConfig \in Config
    /\ ~DefaultConfig.enabled /\ ~DefaultConfig.password
    /\ AskedConfigs \subseteq
         [enabled: BOOLEAN \cup {NotGiven}, schedule: Schedules \cup {NotGiven},
          retention: (Nat \ {0}) \cup {NotGiven}, password: {TRUE, NotGiven}]
    /\ MaxBackups \in Nat /\ MaxUpdates \in Nat
    /\ NoJob \notin Schedules

\* Numbered in the order of their modification times.
Stored == 1 .. MaxBackups

VARIABLES
    config,         \* settings["backup_config"], committed
    job,            \* the trigger of the job "scheduled_backup", in memory
    written,        \* number of backup files ever written
    file,           \* backups whose .lcbak file exists
    meta,           \* backups whose .json file exists
    task,           \* [BackupTasks -> what a request or a job is doing]
    updates,        \* number of updates begun
    strayed,        \* history: the job was left behind by the configuration
    torn,           \* history: backups whose two files a failure or an overlap separated
    removed,        \* history: backups deleted by hand
    lowest          \* history: the lowest retention that was configured

backupVars ==
    <<config, job, written, file, meta, task, updates, strayed, torn, removed, lowest>>

Resting == [op |-> "none", seen |-> DefaultConfig, want |-> DefaultConfig, times |-> FALSE,
            backup |-> 0]

\* seen: the configuration that was read; times: enabled or schedule was given.
Task ==
    [op: {"none", "update", "flushed", "collect", "counts"}, seen: Config, want: Config,
     times: BOOLEAN, backup: 0 .. MaxBackups]

BackupsInit ==
    /\ config = DefaultConfig
    /\ job = NoJob
    /\ written = 0
    /\ file = {} /\ meta = {}
    /\ task = [t \in BackupTasks |-> Resting]
    /\ updates = 0
    /\ strayed = FALSE
    /\ torn = {} /\ removed = {}
    /\ lowest = DefaultConfig.retention

directoryVars == <<written, file, meta, torn, removed>>

Run(t, next) == task' = [task EXCEPT ![t] = next]

-----------------------------------------------------------------------------
(* update_backup_schedule: the job is removed, and added when enabled; an  *)
(* expression that the trigger refuses is logged.                          *)
JobOf(c) == IF c.enabled /\ c.schedule \notin OddSchedules THEN c.schedule ELSE NoJob

Given(asked, else) == IF asked = NotGiven THEN else ELSE asked

Merged(c, asked) ==
    [enabled |-> Given(asked.enabled, c.enabled), schedule |-> Given(asked.schedule, c.schedule),
     retention |-> Given(asked.retention, c.retention),
     password |-> Given(asked.password, c.password)]

\* Mutant: only a new expression reaches the scheduler.
ScheduleGiven(asked) == asked.schedule # NotGiven

TimesGiven(asked) == asked.schedule # NotGiven \/ asked.enabled # NotGiven

(* update_config reads the whole configuration and changes what is given.  *)
UpdateBegin(t, asked) ==
    /\ task[t] = Resting
    /\ updates < MaxUpdates
    /\ updates' = updates + 1
    /\ Run(t, [Resting EXCEPT !.op = "update", !.seen = config, !.want = Merged(config, asked),
                              !.times = TimesGiven(asked)])
    /\ UNCHANGED <<config, job, strayed, lowest, directoryVars>>

\* The flush locks the row until the commit; the scheduler is told before the commit.
UpdateFlush(t) ==
    /\ task[t].op = "update"
    /\ \A q \in BackupTasks : task[q].op # "flushed"
    /\ job' = IF task[t].times THEN JobOf(task[t].want) ELSE job
    /\ Run(t, [task[t] EXCEPT !.op = "flushed"])
    /\ UNCHANGED <<config, updates, strayed, lowest, directoryVars>>

SameTimes(c, d) == c.enabled = d.enabled /\ c.schedule = d.schedule

\* The dict is changed in place, but the row it came from is not the one that is assigned to:
\* get keeps no reference to it, the session's identity map is weak, and set loads the row
\* again, so that the flush compares the changed dict with the stored one and sends the
\* UPDATE.  An update that was committed since the reading is overwritten.
UpdateCommit(t) ==
    LET want == task[t].want IN
    /\ task[t].op = "flushed"
    /\ config' = want
    /\ strayed' = (~task[t].times /\ (strayed \/ ~SameTimes(config, task[t].seen)))
    /\ lowest' = IF want.retention < lowest THEN want.retention ELSE lowest
    /\ Run(t, Resting)
    /\ UNCHANGED <<job, updates, directoryVars>>

UpdateFails(t) ==
    /\ task[t].op \in {"update", "flushed"}
    /\ strayed' = (strayed \/ (task[t].op = "flushed" /\ task[t].times))
    /\ Run(t, Resting)
    /\ UNCHANGED <<config, job, updates, lowest, directoryVars>>

(* A restoration replaces the settings and tells the scheduler nothing.    *)
(* It succeeds on a fresh installation only (see Restore).                 *)
SetupRestore(c) ==
    /\ updates = 0 /\ config = DefaultConfig
    /\ config' = c
    /\ strayed' = TRUE
    /\ lowest' = c.retention
    /\ UNCHANGED <<job, task, updates, directoryVars>>

-----------------------------------------------------------------------------
(* create_scheduled_backup, from the job or from trigger_backup: skipped   *)
(* unless enabled and a password is configured.                            *)
BackupBegin(t) ==
    /\ task[t] = Resting
    /\ config.enabled /\ config.password
    /\ Run(t, [Resting EXCEPT !.op = "collect", !.seen = config])
    /\ UNCHANGED <<config, job, updates, strayed, lowest, directoryVars>>

WriteBackup(t) ==
    /\ task[t].op = "collect"
    /\ written < MaxBackups
    /\ written' = written + 1
    /\ file' = file \cup {written + 1}
    /\ Run(t, [task[t] EXCEPT !.op = "counts", !.backup = written + 1])
    /\ UNCHANGED <<config, job, updates, strayed, lowest, meta, torn, removed>>

\* Mutant: the files are sorted oldest first.
BeyondOldest(n) == {b \in file : Cardinality({c \in file : c < b}) >= n}

\* cleanup_old_backups: the files after the newest n.
BeyondRetention(n) == {b \in file : Cardinality({c \in file : c > b}) >= n}

\* Mutant: the metadata of the removed files stays.
MetadataStays(b, gone) == meta \cup {b}

MetadataAfter(b, gone) == (meta \cup {b}) \ gone

(* Metadata and cleanup, after the counts.  A file that cannot be removed  *)
(* stays, with its metadata.                                               *)
FinishBackup(t) ==
    LET b == task[t].backup IN
    /\ task[t].op = "counts"
    /\ \E gone \in SUBSET BeyondRetention(task[t].seen.retention) :
          /\ file' = file \ gone
          /\ meta' = MetadataAfter(b, gone)
    /\ torn' = IF b \in file THEN torn ELSE torn \cup {b}
    /\ Run(t, Resting)
    /\ UNCHANGED <<config, job, written, updates, strayed, lowest, removed>>

\* The backups that tasks have written without their metadata.
HalfMade(T) == {task[t].backup : t \in {q \in T : task[q].op = "counts"}}

BackupFails(t) ==
    /\ task[t].op \in {"collect", "counts"}
    /\ torn' = torn \cup HalfMade({t})
    /\ Run(t, Resting)
    /\ UNCHANGED <<config, job, written, file, meta, updates, strayed, lowest, removed>>

(* delete_stored_backup finds the backup by the id in its metadata.        *)
DeleteStored(b) ==
    /\ b \in meta
    /\ file' = file \ {b}
    /\ meta' = meta \ {b}
    /\ removed' = removed \cup {b}
    /\ UNCHANGED <<config, job, written, task, updates, strayed, lowest, torn>>

(* A crash and the next start, with initialize_backup_schedule.            *)
Restart ==
    /\ job' = JobOf(config)
    /\ strayed' = FALSE
    /\ torn' = torn \cup HalfMade(BackupTasks)
    /\ task' = [t \in BackupTasks |-> Resting]
    /\ UNCHANGED <<config, written, file, meta, updates, removed, lowest>>

BackupsNext ==
    \/ \E t \in BackupTasks :
          \/ \E asked \in AskedConfigs : UpdateBegin(t, asked)
          \/ UpdateFlush(t)
          \/ UpdateCommit(t)
          \/ UpdateFails(t)
          \/ BackupBegin(t)
          \/ WriteBackup(t)
          \/ FinishBackup(t)
          \/ BackupFails(t)
    \/ \E asked \in AskedConfigs : SetupRestore(Merged(DefaultConfig, asked))
    \/ \E b \in Stored : DeleteStored(b)
    \/ Restart

BackupsSpec == BackupsInit /\ [][BackupsNext]_backupVars

-----------------------------------------------------------------------------
(* The variables hold values of their types.                               *)
BackupsTypeOK ==
    /\ config \in Config
    /\ job \in Schedules \cup {NoJob}
    /\ written \in 0 .. MaxBackups
    /\ file \subseteq Stored /\ meta \subseteq Stored
    /\ task \in [BackupTasks -> Task]
    /\ updates \in 0 .. MaxUpdates
    /\ strayed \in BOOLEAN
    /\ torn \subseteq Stored /\ removed \subseteq Stored
    /\ lowest \in Nat

(* Backups run when the configuration says so: outside an update, the job  *)
(* has the configured schedule, and there is none when backups are         *)
(* disabled.  Exempt are an expression that the trigger refuses and a job  *)
(* left behind by a failed update, by an update that overwrote another or  *)
(* by a restoration, until the next update of the times or the next start. *)
ScheduleFollowsConfig ==
    ((\A t \in BackupTasks : task[t].op # "flushed") /\ ~strayed)
        => IF config.enabled /\ config.schedule \notin OddSchedules
           THEN job = config.schedule ELSE job = NoJob

(* What list_stored_backups shows can be downloaded, restored and deleted, *)
(* which need the metadata, and metadata names a file that is there, but   *)
(* for a backup just being made or one that a failure or an overlapping    *)
(* cleanup tore apart.                                                     *)
StoredInPairs ==
    \A b \in file \cup meta :
        \/ b \in file \cap meta
        \/ b \in torn
        \/ \E t \in BackupTasks : task[t].op = "counts" /\ task[t].backup = b

(* "retention_count: Number of backups to keep": a backup that nobody      *)
(* deleted is gone only when at least so many newer ones were written.     *)
OnlyOldBackupsGo ==
    \A b \in 1 .. written : b \notin file \cup removed => written - b >= lowest

(* The list of stored backups is whole, and the retention takes from it    *)
(* only what it should.                                                    *)
BackupsKept == StoredInPairs /\ OnlyOldBackupsGo
=============================================================================

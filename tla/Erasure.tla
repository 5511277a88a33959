------------------------------- MODULE Erasure -------------------------------
(* apps/users/gdpr.py, tasks.py, views_gdpr.py: personal-data exports (a row,  *)
(* a Celery task and a stored file each) and the 30-day account deletion that  *)
(* a nightly task turns into an anonymisation of the row.                      *)
EXTENDS SecondFactor

CONSTANTS
    MaxJobs,    \* bound: exports requested
    MaxDeaths   \* bound: worker deaths and failed deletions

ASSUME ErasureAssumption == {MaxJobs, MaxDeaths} \subseteq Nat

VARIABLES
    jobs,    \* DataExportJob rows in order of creation; "gone" = deleted
    files,   \* objects in STORAGES["exports"], by job
    work,    \* the export task of each job: queued, running, stored or over
    night,   \* the nightly anonymisation: its step and the jobs it still holds
    deaths   \* worker deaths and failures so far

erasureVars == <<jobs, files, work, night, deaths>>
allVars == <<vars, erasureVars>>

ErasureInit ==
    /\ jobs = <<>> /\ files = {} /\ work = <<>>
    /\ night = [pc |-> "idle", todo |-> {}, keyed |-> {}]
    /\ deaths = 0

DataExportJob == {"pending", "running", "ready", "failed", "gone"}

NightAt(pc) == night.pc = pc
NightGoto(pc) == night' = [night EXCEPT !.pc = pc]
Asleep == [pc |-> "idle", todo |-> {}, keyed |-> {}]

-----------------------------------------------------------------------------
(* Exports *)

\* The view looks for a pending or running job and creates one if there is none.
ExportLook(r) ==
    /\ Authenticated /\ Len(jobs) < MaxJobs
    /\ \A j \in DOMAIN jobs : jobs[j] \notin {"pending", "running"}
    /\ Begin(r, "export", "export", 0)
    /\ UNCHANGED <<user, fams, mails, failed, device, mix, factorVars, erasureVars>>

ExportRequest(r) ==
    /\ At(r, "export")
    /\ jobs' = Append(jobs, "pending")
    /\ work' = Append(work, "queued")
    /\ Goto(r, "done")
    /\ UNCHANGED <<user, fams, mails, failed, device, mix, factorVars, files, night, deaths>>

\* run_data_export: the row must still be there; every other status is run.
ExportStart(j) ==
    /\ work[j] = "queued"
    /\ IF jobs[j] \in {"gone", "ready"}
         THEN work' = [work EXCEPT ![j] = "over"] /\ UNCHANGED jobs
         ELSE work' = [work EXCEPT ![j] = "running"] /\ jobs' = [jobs EXCEPT ![j] = "running"]
    /\ UNCHANGED <<vars, files, night, deaths>>

\* A save on a deleted row raises, out of the handler too: the task just ends.
SaveJob(j, st) ==
    /\ jobs' = [jobs EXCEPT ![j] = IF @ = "gone" THEN "gone" ELSE st]
    /\ work' = [work EXCEPT ![j] = "over"]

ExportStore(j) ==
    /\ work[j] = "running"
    /\ work' = [work EXCEPT ![j] = "stored"]
    /\ files' = files \union {j}
    /\ UNCHANGED <<vars, jobs, night, deaths>>

ExportPublish(j) ==
    /\ work[j] = "stored"
    /\ SaveJob(j, "ready")
    /\ UNCHANGED <<vars, files, night, deaths>>

ExportFails(j) ==
    /\ work[j] = "running" /\ deaths < MaxDeaths
    /\ deaths' = deaths + 1
    /\ SaveJob(j, "failed")
    /\ UNCHANGED <<vars, files, night>>

\* The task was acknowledged when it started: nothing runs it again.
ExportDies(j) ==
    /\ work[j] \in {"running", "stored"} /\ deaths < MaxDeaths
    /\ deaths' = deaths + 1
    /\ work' = [work EXCEPT ![j] = "over"]
    /\ UNCHANGED <<vars, jobs, files, night>>

\* Best effort: a storage that refuses is logged and the row goes all the same.
DropFile(j) ==
    \/ files' = files \ {j} /\ UNCHANGED deaths
    \/ deaths < MaxDeaths /\ deaths' = deaths + 1 /\ UNCHANGED files

\* evict_expired_exports: only a ready job has an expiry; file first, then row.
Evict(j) ==
    /\ jobs[j] = "ready"
    /\ DropFile(j)
    /\ jobs' = [jobs EXCEPT ![j] = "gone"]
    /\ UNCHANGED <<vars, work, night>>

-----------------------------------------------------------------------------
(* Deletion *)

DeleteRequest ==
    /\ "erase" \in mix /\ Authenticated /\ user.pending = "no"
    /\ user' = [user EXCEPT !.pending = "asked"]
    /\ UNCHANGED <<fams, mails, failed, device, reqs, mix, factorVars, erasureVars>>

DeleteCancel ==
    /\ "erase" \in mix /\ Authenticated /\ user.pending # "no"
    /\ user' = [user EXCEPT !.pending = "no"]
    /\ UNCHANGED <<fams, mails, failed, device, reqs, mix, factorVars, erasureVars>>

ThirtyDaysPass ==
    /\ user.pending = "asked"
    /\ user' = [user EXCEPT !.pending = "due"]
    /\ UNCHANGED <<fams, mails, failed, device, reqs, mix, factorVars, erasureVars>>

\* anonymize_expired_accounts reads the due rows; one that is disabled is not due.
NightReads ==
    /\ NightAt("idle") /\ user.pending = "due" /\ user.active
    /\ NightGoto("secrets")
    /\ UNCHANGED <<vars, jobs, files, work, deaths>>

\* anonymize_user 1): MFA device, backup codes and broker accounts go first.
DropSecrets ==
    /\ NightAt("secrets")
    /\ device' = [device EXCEPT !.st = "none"]
    /\ codes' = [codes EXCEPT !.unused = {}]
    /\ NightGoto("exports")
    /\ UNCHANGED <<user, fams, mails, failed, reqs, mix, misses, guesses, jobs, files, work, deaths>>

\* 1b) _delete_export_jobs over the rows as they were listed: the file of a row
\* that had a key, then the row.
ListExports ==
    /\ NightAt("exports")
    /\ night' = [pc |-> "purge",
                 todo |-> {j \in DOMAIN jobs : jobs[j] # "gone"},
                 keyed |-> {j \in DOMAIN jobs : jobs[j] = "ready"}]
    /\ UNCHANGED <<vars, jobs, files, work, deaths>>

PurgeExport(j) ==
    /\ NightAt("purge") /\ j \in night.todo
    /\ IF j \in night.keyed THEN DropFile(j) ELSE UNCHANGED <<files, deaths>>
    /\ jobs' = [jobs EXCEPT ![j] = "gone"]
    /\ night' = [night EXCEPT !.todo = @ \ {j}]
    /\ UNCHANGED <<vars, work>>

\* Mutant: is_active and pending_delete_at missing from update_fields.
ScrubName(u) == [u EXCEPT !.name = "anon", !.verified = FALSE, !.pw = FALSE]

\* 2) the row, by named columns.
Scrub(u) == [u EXCEPT !.name = "anon", !.active = FALSE, !.verified = FALSE,
                      !.pw = FALSE, !.pending = "no"]
ScrubRow ==
    /\ NightAt("purge") /\ night.todo = {}
    /\ user' = Scrub(user)
    /\ night' = Asleep
    /\ UNCHANGED <<fams, mails, failed, device, reqs, mix, factorVars, jobs, files, work, deaths>>

\* A delete that raises, or the worker's death: the row keeps its pending date
\* and the next night starts over.
NightDies ==
    /\ ~NightAt("idle") /\ deaths < MaxDeaths
    /\ deaths' = deaths + 1
    /\ night' = Asleep
    /\ UNCHANGED <<vars, jobs, files, work>>

NightStep ==
    \/ NightReads \/ DropSecrets \/ ListExports \/ ScrubRow
    \/ \E j \in DOMAIN jobs : PurgeExport(j)

ErasureStep ==
    \/ DeleteRequest \/ DeleteCancel \/ ThirtyDaysPass \/ NightStep \/ NightDies
    \/ \E r \in Reqs : ExportLook(r) \/ ExportRequest(r)
    \/ \E j \in DOMAIN jobs :
         \/ ExportStart(j) \/ ExportStore(j) \/ ExportPublish(j)
         \/ ExportFails(j) \/ ExportDies(j) \/ Evict(j)

-----------------------------------------------------------------------------
IdentityInit == Init /\ FactorInit /\ ErasureInit
IdentityNext ==
    \/ (TokenStep \/ SessionStep) /\ UNCHANGED <<factorVars, erasureVars>>
    \/ FactorStep /\ UNCHANGED erasureVars
    \/ ErasureStep

AllTyped ==
    /\ TypeOK /\ FactorTypeOK
    /\ \A j \in DOMAIN jobs : jobs[j] \in DataExportJob
    /\ files \subseteq DOMAIN jobs /\ Len(work) = Len(jobs)

\* An erased account comes back only through a password reset that had loaded
\* the row before it was scrubbed and writes all of it back.
OnlyResetRevives ==
    [][user.name = "anon" /\ user'.name = "own" =>
         \E r \in Reqs : At(r, "reset") /\ reqs[r].me.name = "own"]_allVars

\* Once its thirty days are over an account is anonymised, whatever deletion
\* fails or worker dies on the way, unless the owner cancels or it was disabled.
DueGetsErased ==
    user.pending = "due" ~> (~user.active \/ user.pending # "due")

\* "A full export must not survive right-to-erasure."
NoExportSurvivesErasure ==
    (user.name = "anon" /\ \A j \in DOMAIN work : work[j] = "over") => files = {}
=============================================================================

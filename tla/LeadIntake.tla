----------------------------- MODULE LeadIntake -----------------------------
(***************************************************************************)
(* How leads come in and get their first draft: uploads                    *)
(* (app/routers/leads.py), discovery runs (app/services/lead_discovery.py, *)
(* discover_leads_task) and the enrichment of one lead or of a batch       *)
(* (enrich_lead_task, batch_enrich_leads_task, run_with_guard,             *)
(* LLMClient._complete_structured).                                        *)
(*                                                                         *)
(* Uploads and runs look for a lead with the address before they insert    *)
(* one, each in one transaction; nothing in the schema keeps two leads     *)
(* with one address apart.                                                 *)
(***************************************************************************)
EXTENDS SpamGuardian, FiniteSetsExt

CONSTANTS Prospects,      \* rows of uploads and businesses with their owner's contact
          EmailOf, SiteOf, DomainOf,
          LikeOf,         \* LikeOf[e]: addresses the pattern e of ilike matches
          HashOf,         \* HashOf[id]: the SHA-256 of the lead's id
          Uploads,        \* requests
          Runs,           \* executions of discover_leads_task
          Workers,        \* executions of the enrichment tasks under way
          Listed,         \* suppression lists to start from
          Campaigns,      \* weights of the campaign's variants to start from, or <<>>
          Queries,        \* searches of the campaign
          DailyCount,
          MaxRewrites,    \* SPAM_GUARDIAN_MAX_REWRITE_ATTEMPTS
          MaxCorrections, \* MAX_SELF_CORRECTION_ATTEMPTS
          MaxRetries,     \* max_retries of enrich_lead_task
          MaxCopies,      \* bound: rows made of one prospect
          Together        \* bound: sets of events of which one behaviour suffers at
                          \* most all, each once

Ids == Prospects \X (1..MaxCopies)    \* primary keys of leads: copies of a prospect
Email(id) == EmailOf[id[1]]
Site(id) == SiteOf[id[1]]
Addresses == DOMAIN DomainOf

EventKinds == {"overlap", "runCrash", "searchError", "noContact", "suppression", "enrich",
               "batch", "invalid", "providerError", "workerCrash", "redelivery"}

ASSUME IntakeAssumption ==
  /\ MaxCopies \in Nat \ {0} /\ DailyCount \in Nat /\ Queries \in Nat \ {0}
  /\ IsFiniteSet(Prospects) /\ Uploads \cap Runs = {}
  /\ MaxRewrites \in Nat /\ MaxCorrections \in Nat \ {0} /\ MaxRetries \in Nat
  /\ EmailOf \in [Prospects -> Addresses]
  /\ DOMAIN SiteOf = Prospects
  /\ LikeOf \in [Addresses -> SUBSET Addresses] /\ \A e \in Addresses : e \in LikeOf[e]
  /\ HashOf \in [Ids -> Nat]
  /\ Listed \subseteq SUBSET Addresses
  /\ \A weights \in Campaigns : weights \in Weights
  /\ Together \subseteq SUBSET EventKinds

Leads == [there : BOOLEAN, source : {"manual", "discovery"}, enrolled : BOOLEAN,
          status : {"new", "enriched", "opted_out"}, variant : Nat,
          drafts : Nat, held : Nat]
UploadStates == [pc : {"idle", "checking", "done", "failed"}, enrolled : BOOLEAN,
                 todo : SUBSET Prospects, fresh : SUBSET Prospects]
RunStates == [pc : {"idle", "creating", "searching", "looking", "publishing", "done",
                    "failed"},
              own : BOOLEAN, queries : 0..Queries, todo : SUBSET Prospects,
              fresh : SUBSET Prospects, ids : SUBSET Ids]
Nobody == <<"none", 0>>
Counts == [1..MaxRetries -> Nat]
TaskStates == [pc : {"idle", "next", "start", "drafting"}, id : Ids \cup {Nobody},
               batch : SUBSET Ids, rest : SUBSET Ids, variant : Nat,
               attempt : 0..MaxRewrites, tries : 0..MaxCorrections,
               retries : 0..MaxRetries]

VARIABLES
  lead,        \* lead[id]: a leads row, how many first drafts it has, how many of
               \* them are held for review
  weights,     \* the campaign's variants; <<>>: there is no campaign
  suppressed,  \* addresses on the suppression list
  upload,      \* upload[u]: addresses to look up, to insert
  run,         \* run[r]: whether it holds the uncommitted campaign, searches left,
               \* businesses to look up, to insert, leads to publish
  queue,       \* queue[id]: enrichment tasks in the broker
  retried,     \* retried[id][k]: how many of them are a k-th retry
  batch,       \* leads of the batch task in the broker
  task,        \* task[w]: its lead, the batch it came with, what is left of it,
               \* the variant it assigned, rewrites, corrections and retries so far
  cut,         \* history: leads whose way was cut off by an error or a crash
  spent        \* events that have happened

broker == <<queue, retried, batch>>
vars == <<lead, weights, suppressed, upload, run, broker, task, cut, spent>>

TypeOK ==
  /\ lead \in [Ids -> Leads]
  /\ weights \in Weights
  /\ suppressed \in SUBSET Addresses
  /\ upload \in [Uploads -> UploadStates]
  /\ run \in [Runs -> RunStates]
  /\ queue \in [Ids -> Nat]
  /\ retried \in [Ids -> Counts]
  /\ batch \in SUBSET Ids
  /\ task \in [Workers -> TaskStates]
  /\ cut \in SUBSET Ids
  /\ spent \in SUBSET EventKinds

NoLead == [there |-> FALSE, source |-> "manual", enrolled |-> FALSE, status |-> "new",
           variant |-> 0, drafts |-> 0, held |-> 0]
NoUpload == [pc |-> "idle", enrolled |-> FALSE, todo |-> {}, fresh |-> {}]
NoRun == [pc |-> "idle", own |-> FALSE, queries |-> Queries, todo |-> {}, fresh |-> {},
          ids |-> {}]
NoTask == [pc |-> "idle", id |-> Nobody, batch |-> {}, rest |-> {}, variant |-> 0,
           attempt |-> 0, tries |-> 0, retries |-> 0]

Init ==
  /\ lead = [id \in Ids |-> NoLead]
  /\ weights \in Campaigns
  /\ suppressed \in Listed
  /\ upload = [u \in Uploads |-> NoUpload]
  /\ run = [r \in Runs |-> NoRun]
  /\ queue = [id \in Ids |-> 0]
  /\ retried = [id \in Ids |-> [k \in 1..MaxRetries |-> 0]]
  /\ batch = {}
  /\ task = [w \in Workers |-> NoTask]
  /\ cut = {}
  /\ spent = {}

Spend(kind) ==
  /\ kind \notin spent
  /\ spent' = spent \cup {kind}
  /\ \E events \in Together : spent' \subseteq events

There == {id \in Ids : lead[id].there}
FreeCopies(p) == {id \in Ids : id[1] = p /\ ~lead[id].there}
FreeCopy(p) == CHOOSE id \in FreeCopies(p) : TRUE

-----------------------------------------------------------------------------
(* Slips the properties have to catch, used by no specification: each is a   *)
(* definition further down with one plausible mistake.                       *)

WithAddressExact(e, fresh) == {id \in There : Email(id) = e /\ lead[id].source = "manual"}
RemainingPerQuery(found) == DailyCount
PublishedWithEveryNew(id) ==
  [i \in Ids |-> IF i = id \/ (lead[i].source = "discovery" /\ lead[i].status = "new"
                                /\ lead[i].there)
                THEN queue[i] + 1 ELSE queue[i]]
AssignedAfresh(id) ==
  IF lead[id].enrolled /\ weights # <<>> THEN Chosen(weights, HashOf[id] + lead[id].drafts) ELSE 0
FinishedBatch(w) == [NoTask EXCEPT !.pc = "next", !.rest = task[w].rest, !.batch = task[w].batch]

-----------------------------------------------------------------------------
(* What both ways in look up.                                               *)

\* ilike on the address, over the committed rows and the transaction's own.
WithAddress(e, fresh) ==
  {id \in There : Email(id) \in LikeOf[e]}
    \cup {<<p, 0>> : p \in {q \in fresh : EmailOf[q] \in LikeOf[e]}}
WithSite(site, fresh) ==
  {id \in There : Site(id) = site} \cup {<<p, 0>> : p \in {q \in fresh : SiteOf[q] = site}}

\* An entry stands for its address and for every address of its domain.
IsSuppressed(e) == \E s \in suppressed : s = e \/ DomainOf[s] = DomainOf[e]

Open == {u \in Uploads : upload[u].pc = "checking"}
          \cup {r \in Runs : run[r].pc \in {"creating", "searching", "looking"}}
Alone == Open = {}
Opens == IF Alone THEN UNCHANGED spent ELSE Spend("overlap")

Inserted(fresh, source, enrolled) ==
  [id \in Ids |-> IF id[1] \in fresh /\ id = FreeCopy(id[1])
                  THEN [NoLead EXCEPT !.there = TRUE, !.source = source, !.enrolled = enrolled]
                  ELSE lead[id]]
Fits(fresh) == \A p \in fresh : FreeCopies(p) # {}

-----------------------------------------------------------------------------
(* POST /leads/upload and /leads/upload/file: one transaction.              *)

intake == <<lead, weights>>
enrichment == <<broker, task, cut>>

BeginUpload(u, asked, enrolled) ==
  /\ upload[u].pc = "idle"
  /\ asked # {}
  /\ enrolled => weights # <<>>
  /\ Opens
  /\ upload' = [upload EXCEPT ![u] = [NoUpload EXCEPT !.pc = "checking", !.enrolled = enrolled,
                                                      !.todo = asked]]
  /\ UNCHANGED <<intake, suppressed, run, enrichment>>

\* scalar_one_or_none: more than one lead is an error, and the upload with it.
CheckRow(u, p) ==
  LET known == WithAddress(EmailOf[p], upload[u].fresh) IN
  /\ upload[u].pc = "checking" /\ p \in upload[u].todo
  /\ upload' = [upload EXCEPT ![u] =
       IF Cardinality(known) > 1 THEN [NoUpload EXCEPT !.pc = "failed"]
       ELSE [upload[u] EXCEPT !.todo = @ \ {p},
                              !.fresh = IF known = {} THEN @ \cup {p} ELSE @]]
  /\ UNCHANGED <<intake, suppressed, run, enrichment, spent>>

CommitUpload(u) ==
  /\ upload[u].pc = "checking" /\ upload[u].todo = {}
  /\ Fits(upload[u].fresh)
  /\ lead' = Inserted(upload[u].fresh, "manual", upload[u].enrolled)
  /\ upload' = [upload EXCEPT ![u] = [NoUpload EXCEPT !.pc = "done"]]
  /\ UNCHANGED <<weights, suppressed, run, enrichment, spent>>

-----------------------------------------------------------------------------
(* discover_leads_task, one campaign: one transaction, then one message for *)
(* each new lead.                                                           *)

Move(r, x) == run' = [run EXCEPT ![r] = x]

BeginRun(r) ==
  /\ run[r].pc = "idle"
  /\ Opens
  /\ Move(r, [NoRun EXCEPT !.pc = IF weights = <<>> THEN "creating" ELSE "searching"])
  /\ UNCHANGED <<intake, suppressed, upload, enrichment>>

\* The insert waits for another transaction that inserts the same name.
CreateCampaign(r) ==
  /\ run[r].pc = "creating"
  /\ weights = <<>>
  /\ \A q \in Runs : ~run[q].own
  /\ Move(r, [run[r] EXCEPT !.pc = "searching", !.own = TRUE])
  /\ UNCHANGED <<intake, suppressed, upload, enrichment, spent>>

\* campaigns.name is unique: IntegrityError ends the task.
CampaignClash(r) ==
  /\ run[r].pc = "creating"
  /\ weights # <<>>
  /\ Move(r, [NoRun EXCEPT !.pc = "failed"])
  /\ UNCHANGED <<intake, suppressed, upload, enrichment, spent>>

CampaignOf(r) == IF run[r].own THEN <<1>> ELSE weights
Remaining(found) == DailyCount - Cardinality(found)

Search(r, found) ==
  LET all == run[r].todo \cup found IN
  /\ run[r].pc = "searching"
  /\ Cardinality(found) <= Remaining(run[r].todo)
  /\ Move(r, [run[r] EXCEPT !.todo = all, !.queries = @ - 1,
                !.pc = IF run[r].queries = 1 \/ Remaining(all) <= 0 THEN "looking" ELSE @])
  /\ UNCHANGED <<intake, suppressed, upload, enrichment, spent>>

\* The failed run is recorded, and with it the campaign; what was found is dropped.
SearchFails(r) ==
  /\ run[r].pc = "searching"
  /\ Spend("searchError")
  /\ weights' = CampaignOf(r)
  /\ Move(r, [NoRun EXCEPT !.pc = "done"])
  /\ UNCHANGED <<lead, suppressed, upload, enrichment>>

IsNew(r, p) ==
  /\ ~IsSuppressed(EmailOf[p])
  /\ WithAddress(EmailOf[p], run[r].fresh) = {}
  /\ WithSite(SiteOf[p], run[r].fresh) = {}

Consider(r, p) ==
  /\ run[r].pc = "looking" /\ p \in run[r].todo
  /\ Move(r, [run[r] EXCEPT !.todo = @ \ {p}, !.fresh = IF IsNew(r, p) THEN @ \cup {p} ELSE @])
  /\ UNCHANGED <<intake, suppressed, upload, enrichment, spent>>

\* No contact, none that is verified, or the lookup fails.
NoContact(r, p) ==
  /\ run[r].pc = "looking" /\ p \in run[r].todo
  /\ Spend("noContact")
  /\ Move(r, [run[r] EXCEPT !.todo = @ \ {p}])
  /\ UNCHANGED <<intake, suppressed, upload, enrichment>>

CommitRun(r) ==
  LET fresh == run[r].fresh IN
  /\ run[r].pc = "looking" /\ run[r].todo = {}
  /\ Fits(fresh)
  /\ lead' = Inserted(fresh, "discovery", TRUE)
  /\ weights' = CampaignOf(r)
  /\ Move(r, [NoRun EXCEPT !.pc = IF fresh = {} THEN "done" ELSE "publishing",
                           !.ids = {FreeCopy(p) : p \in fresh}])
  /\ UNCHANGED <<suppressed, upload, enrichment, spent>>

Published(id) == [queue EXCEPT ![id] = @ + 1]

PublishLead(r, id) ==
  /\ run[r].pc = "publishing" /\ id \in run[r].ids
  /\ queue' = Published(id)
  /\ Move(r, IF run[r].ids = {id} THEN [NoRun EXCEPT !.pc = "done"]
                                  ELSE [run[r] EXCEPT !.ids = @ \ {id}])
  /\ UNCHANGED <<intake, suppressed, upload, retried, batch, task, cut, spent>>

RunCrash(r) ==
  /\ run[r].pc \notin {"idle", "done", "failed"}
  /\ Spend("runCrash")
  /\ cut' = cut \cup run[r].ids
  /\ Move(r, [NoRun EXCEPT !.pc = "failed"])
  /\ UNCHANGED <<intake, suppressed, upload, broker, task>>

-----------------------------------------------------------------------------
(* POST /leads/{id}/enrich and /leads/enrich/batch.                         *)

EnrichLead(id) ==
  /\ id \in There
  /\ Spend("enrich")
  /\ queue' = Published(id)
  /\ UNCHANGED <<intake, suppressed, upload, run, retried, batch, task, cut>>

EnrichBatch ==
  /\ Spend("batch")
  /\ batch' = {id \in There : lead[id].status = "new"}
  /\ batch' # {}
  /\ UNCHANGED <<intake, suppressed, upload, run, queue, retried, task, cut>>

-----------------------------------------------------------------------------
(* enrich_lead_task, and batch_enrich_leads_task, which runs its body for   *)
(* one lead after the other.                                                *)

rest == <<weights, upload, run>>
Do(w, x) == task' = [task EXCEPT ![w] = x]

\* Back to the batch, or done.
Finished(w) ==
  IF task[w].rest = {} THEN NoTask
  ELSE [NoTask EXCEPT !.pc = "next", !.rest = task[w].rest, !.batch = task[w].batch]

\* A message with k retries behind it is put into the broker, or comes back to it.
Queue(id, k) ==
  /\ queue' = Published(id)
  /\ retried' = IF k = 0 THEN retried ELSE [retried EXCEPT ![id][k] = @ + 1]

First(id) == queue[id] > MapThenSumSet(LAMBDA k : retried[id][k], 1..MaxRetries)

Take(w, id, k) ==
  /\ task[w].pc = "idle" /\ queue[id] > 0
  /\ queue' = [queue EXCEPT ![id] = @ - 1]
  /\ IF k = 0 THEN First(id) /\ UNCHANGED retried
              ELSE retried[id][k] > 0 /\ retried' = [retried EXCEPT ![id][k] = @ - 1]
  /\ Do(w, [NoTask EXCEPT !.pc = "start", !.id = id, !.retries = k])
  /\ UNCHANGED <<rest, lead, suppressed, batch, cut, spent>>

TakeBatch(w) ==
  /\ task[w].pc = "idle" /\ batch # {}
  /\ batch' = {}
  /\ Do(w, [NoTask EXCEPT !.pc = "next", !.batch = batch, !.rest = batch])
  /\ UNCHANGED <<rest, lead, suppressed, queue, retried, cut, spent>>

NextOfBatch(w, id) ==
  /\ task[w].pc = "next" /\ id \in task[w].rest
  /\ Do(w, [task[w] EXCEPT !.pc = "start", !.id = id, !.rest = @ \ {id}])
  /\ UNCHANGED <<rest, lead, suppressed, broker, cut, spent>>

SkipSuppressed(w) ==
  /\ task[w].pc = "start"
  /\ IsSuppressed(Email(task[w].id))
  /\ lead' = [lead EXCEPT ![task[w].id].status = "opted_out"]
  /\ Do(w, Finished(w))
  /\ UNCHANGED <<rest, suppressed, broker, cut, spent>>

\* A variant for life; it is committed with the draft.
Assigned(id) ==
  IF lead[id].variant # 0 THEN lead[id].variant
  ELSE IF lead[id].enrolled /\ weights # <<>> THEN Chosen(weights, HashOf[id]) ELSE 0

StartDrafting(w) ==
  /\ task[w].pc = "start"
  /\ ~IsSuppressed(Email(task[w].id))
  /\ Do(w, [task[w] EXCEPT !.pc = "drafting", !.variant = Assigned(task[w].id)])
  /\ UNCHANGED <<rest, lead, suppressed, broker, cut, spent>>

\* The answer of the LLM is no valid JSON: it is asked to correct it.
Invalid(w) ==
  /\ task[w].pc = "drafting" /\ task[w].tries + 1 < MaxCorrections
  /\ Do(w, [task[w] EXCEPT !.tries = @ + 1])
  /\ UNCHANGED <<rest, lead, suppressed, broker, cut, spent>>

MayRetry(w) == task[w].batch = {} /\ task[w].retries < MaxRetries

\* LLMJSONError: the task is retried max_retries times, then fails; called from a
\* batch, it ends the batch.
GiveUp(w) ==
  LET x == task[w] IN
  /\ x.pc = "drafting" /\ x.tries + 1 = MaxCorrections
  /\ IF "invalid" \in spent THEN UNCHANGED spent ELSE Spend("invalid")
  /\ IF MayRetry(w) THEN Queue(x.id, x.retries + 1) /\ UNCHANGED cut
                    ELSE cut' = cut \cup {x.id} \cup x.rest /\ UNCHANGED <<queue, retried>>
  /\ Do(w, NoTask)
  /\ UNCHANGED <<rest, lead, suppressed, batch>>

\* Every other error of the LLM ends the task.
ProviderFails(w) ==
  /\ task[w].pc = "drafting"
  /\ Spend("providerError")
  /\ cut' = cut \cup {task[w].id} \cup task[w].rest
  /\ Do(w, NoTask)
  /\ UNCHANGED <<rest, lead, suppressed, broker>>

MayRewrite(w) == task[w].attempt < MaxRewrites

\* run_with_guard: a draft that asks for it goes back with the reasons.
Rewrite(w) ==
  /\ task[w].pc = "drafting" /\ MayRewrite(w)
  /\ Do(w, [task[w] EXCEPT !.attempt = @ + 1, !.tries = 0])
  /\ UNCHANGED <<rest, lead, suppressed, broker, cut, spent>>

Accepted(w, risk) == AsksAgain(risk) => task[w].attempt >= MaxRewrites
HoldsIt(w, risk) == risk = "high"

SaveDraft(w, risk) ==
  LET id == task[w].id IN
  /\ task[w].pc = "drafting"
  /\ Accepted(w, risk)
  /\ lead' = [lead EXCEPT ![id].status = "enriched", ![id].variant = task[w].variant,
                          ![id].drafts = @ + 1,
                          ![id].held = IF HoldsIt(w, risk) THEN @ + 1 ELSE @]
  /\ Do(w, Finished(w))
  /\ UNCHANGED <<rest, suppressed, broker, cut, spent>>

\* The message comes back as it was, with its count of retries or the whole batch.
Return(w) ==
  IF task[w].batch = {} THEN Queue(task[w].id, task[w].retries) /\ UNCHANGED batch
  ELSE batch' = batch \cup task[w].batch /\ UNCHANGED <<queue, retried>>

\* The unacknowledged message comes back, or was acknowledged for the dead child.
WorkerCrash(w, back) ==
  /\ task[w].pc # "idle"
  /\ Spend("workerCrash")
  /\ IF ~back
     THEN cut' = cut \cup task[w].rest \cup ({task[w].id} \ {Nobody}) /\ UNCHANGED broker
     ELSE Return(w) /\ UNCHANGED cut
  /\ Do(w, NoTask)
  /\ UNCHANGED <<rest, lead, suppressed>>

Redeliver(w) ==
  /\ task[w].pc # "idle"
  /\ Spend("redelivery")
  /\ Return(w)
  /\ UNCHANGED <<rest, lead, suppressed, task, cut>>

Suppress(e) ==
  /\ Spend("suppression")
  /\ suppressed' = suppressed \cup {e}
  /\ UNCHANGED <<rest, lead, enrichment>>

-----------------------------------------------------------------------------
UploadStep(u) ==
  \/ \E asked \in SUBSET Prospects, enrolled \in BOOLEAN : BeginUpload(u, asked, enrolled)
  \/ \E p \in Prospects : CheckRow(u, p)
  \/ CommitUpload(u)

DiscoveryStep(r) ==
  \/ CreateCampaign(r) \/ CampaignClash(r)
  \/ \E found \in SUBSET Prospects : Search(r, found)
  \/ \E p \in Prospects : Consider(r, p)
  \/ CommitRun(r)
  \/ \E id \in Ids : PublishLead(r, id)

EnrichStep(w) ==
  \/ \E id \in Ids : NextOfBatch(w, id) \/ \E k \in 0..MaxRetries : Take(w, id, k)
  \/ TakeBatch(w)
  \/ SkipSuppressed(w) \/ StartDrafting(w)
  \/ Invalid(w) \/ GiveUp(w) \/ Rewrite(w)
  \/ \E risk \in RiskLevels : SaveDraft(w, risk)

Disturbance ==
  \/ \E r \in Runs : SearchFails(r) \/ RunCrash(r) \/ \E p \in Prospects : NoContact(r, p)
  \/ \E id \in Ids : EnrichLead(id)
  \/ EnrichBatch
  \/ \E w \in Workers : \/ ProviderFails(w) \/ Redeliver(w)
                        \/ \E back \in BOOLEAN : WorkerCrash(w, back)
  \/ \E e \in Addresses : Suppress(e)

Next ==
  \/ \E u \in Uploads : UploadStep(u)
  \/ \E r \in Runs : BeginRun(r) \/ DiscoveryStep(r)
  \/ \E w \in Workers : EnrichStep(w)
  \/ Disturbance

Spec == Init /\ [][Next]_vars

\* Beat starts no particular run and nobody has to upload; what has begun goes on,
\* though every answer of the LLM may be invalid.
Fairness ==
  /\ \A r \in Runs : WF_vars(DiscoveryStep(r))
  /\ \A w \in Workers : WF_vars(EnrichStep(w))

FairSpec == Spec /\ Fairness

-----------------------------------------------------------------------------
AtRest(id) ==
  /\ queue[id] = 0 /\ id \notin batch
  /\ \A r \in Runs : id \notin run[r].ids
  /\ \A w \in Workers : task[w].id # id /\ id \notin task[w].rest

\* Two leads with one address, or two discovered leads of one website, come of
\* transactions that overlapped, only: neither way in sees the other's uncommitted
\* rows, and nothing in the schema does (routers/leads.py:60, lead_discovery.py:393-405,
\* models.py:43).
NoDuplicates ==
  "overlap" \in spent
    \/ \A i, j \in There : i # j =>
         /\ Email(i) # Email(j)
         /\ lead[i].source = "discovery" /\ lead[j].source = "discovery" => Site(i) # Site(j)

\* Discovery keeps suppressed addresses and their domains out, and no lead of theirs
\* is drafted for, whoever uploaded it (lead_discovery.py:390, celery_tasks.py:58).
SuppressedStayOut ==
  "suppression" \in spent
    \/ \A id \in There, s \in suppressed :
         DomainOf[s] = DomainOf[Email(id)] => lead[id].source = "manual" /\ lead[id].drafts = 0

\* However many queries a campaign has, a run looks at daily_count businesses
\* at most, and adds no more leads (lead_discovery.py:353-372).
DailyCountKept ==
  \A r \in Runs :
    Cardinality(run[r].todo) + Cardinality(run[r].fresh) + Cardinality(run[r].ids) <= DailyCount

\* A discovered lead still new, with nothing on its way to enrich it, was cut off:
\* the run is committed before its leads are published, the retries of a task are
\* counted, and a batch ends at the first error.  And a lead gets one first draft,
\* unless somebody asks again or a task is delivered again: enrichment never looks at
\* the lead's status (celery_tasks.py:609-611, 48, 81, 124, 53-97).
EnrichedOnce ==
  /\ \A id \in There : lead[id].source = "discovery" /\ lead[id].status = "new" /\ AtRest(id)
                          => id \in cut
  /\ \/ spent \cap {"enrich", "batch", "workerCrash", "redelivery"} # {}
     \/ \A id \in There : lead[id].drafts <= 1

\* A lead keeps its variant however often it is enriched, and by whichever worker;
\* and a draft held for review has been rewritten as often as allowed
\* (campaigns.py:20-26, spam_guardian.py:156-161, celery_tasks.py:83).
DraftedByTheRules ==
  [][\A id \in Ids :
       /\ lead[id].variant # 0 => lead'[id].variant = lead[id].variant
       /\ lead'[id].held > lead[id].held =>
            \E w \in Workers : task[w].id = id /\ task[w].attempt = MaxRewrites]_lead

\* What is about to be inserted by a run or drafted for has passed the check.
PassedTheCheck ==
  "suppression" \in spent
    \/ /\ \A r \in Runs : \A p \in run[r].fresh : ~IsSuppressed(EmailOf[p])
       /\ \A w \in Workers : task[w].pc = "drafting" => ~IsSuppressed(Email(task[w].id))

\* Where a run holds what: businesses to search for, to look up, leads to publish.
RunsInOrder ==
  \A r \in Runs :
    /\ run[r].pc \in {"creating", "searching"} => run[r].queries > 0 /\ run[r].fresh = {}
    /\ run[r].pc # "publishing" => run[r].ids = {}
    /\ run[r].pc = "publishing" => run[r].todo = {} /\ run[r].fresh = {}
    /\ run[r].pc \in {"idle", "creating", "done", "failed"} => run[r].todo = {} /\ run[r].fresh = {}

\* Workers enrich leads.
TasksHaveLeads ==
  \A w \in Workers : task[w].pc \in {"start", "drafting"} => task[w].id \in Ids

\* What the ways in promise, with what their transactions have seen: every step
\* keeps it.
IntakeInv ==
  /\ TypeOK
  /\ RunsInOrder
  /\ TasksHaveLeads
  /\ DailyCountKept
  /\ PassedTheCheck
  /\ SuppressedStayOut

Pending ==
  {id \in There : lead[id].source = "discovery" /\ lead[id].status = "new" /\ id \notin cut}

\* What the runs have committed is enriched or found suppressed in the end, or was
\* cut off, even if the LLM never gives a valid answer (celery_tasks.py:609-611, 48-118).
DiscoveredIsEnriched == []<>(Pending = {})

\* Over a period of the hash each variant, a middle one too, gets as many leads as
\* it weighs (campaigns.py:21-43).
VariantsAreWeighted ==
  \A some \in [1..2 -> 1..2] \cup {<<1, 2, 1>>} : \A i \in DOMAIN some :
    Cardinality({hash \in 0..(Total(some) - 1) : Chosen(some, hash) = i}) = some[i]

=============================================================================

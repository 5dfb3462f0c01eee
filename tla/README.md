# Falcon CRM: specifications, model checking and proofs

Falcon CRM (`src/`) is a multi-tenant CRM for companies that bring sellers onto
marketplaces: an HTTP API (`apps/api`), a delivery worker (`apps/worker`), a web
client (`apps/web`) and shared packages, on one PostgreSQL database reached
through Prisma. There is no queue, no cache and no in-memory state in the API
that outlives a request: everything that must stay true is kept true by SQL
statements that request handlers issue between two `await`s. The client, on the
other hand, lives on copies: react-query's cache, drafts that were filled from it,
and requests that send a draft back whole. The specifications are about what both
sides keep true when handlers interleave, fail half-way, overlap with
configuration changes, or answer a page that has moved on.

`PROJECT.json` is the index: components, runs, mutants, the source lines each
definition stands for, hazards, divergences from the documentation, theorems.

## 1. Inventory

All tables carry an organization; except in the worker, one organization at a
time is modelled. Transactions run at READ COMMITTED, Prisma's default.

| component | state | operations | modelled in |
|---|---|---|---|
| Campaign sends (`api/src/campaigns`) | `campaign_sends` (status, attempts, claimed_at), `campaigns` | trigger, manual send, drain (reclaim, select, claim, deliver, mark), retry, create, edit, switch | CampaignSends, CampaignDesk |
| Campaign worker (`apps/worker`, `http/routes/internal.ts`) | a timer, one request in flight | poll, drain of all organizations | CampaignWorker |
| Assignment routing (`api/src/routing`) | `assignments`, `status_routing_rules` (pool, cursor), grants per status, `reassignment` activities | route on a status change, manual routing-assign, replace and deactivate a rule, grants | RoutingAlgorithms, StatusRouting, AssignmentCustody, RoutingPanel |
| Lead sharing (`leads/sharing.ts`, `reassignment-grace.ts`, `access-grants.ts`) | `user_access_grants` | create, update, revoke, reassign with a grace grant, deactivate the lead, expiry | LeadSharing, SellerPage |
| Lead access (`packages/permission-engine`, `leads/filter-sql.ts`, `permissions/`) | none of its own; reads users, roles, rules, assignments, grants | decide about one record; the list's SQL predicate, the Prisma form beside it | LeadAccess |
| Journey statuses (part of `configuration/service.ts`) | `statuses`, `process_instances.current_status_id` | default, retirement with a replacement; create, edit, reorder | JourneyStatuses, JourneyPage |
| Leads (`leads/service.ts`, `validation.ts`) | `leads.field_values`, `process_instances` | create, move to a journey, edit, change the status | LeadFields, StatusRouting, JourneyStatuses, SellerPage |
| Users, roles, teams (`admin/`) | `users`, `roles`, permissions, `teams` | update, deactivate, replace permissions, members and visibility, bootstrap | Administration, FieldVisibility |
| Accounts (`auth/`) | `sessions`, `password_reset_tokens`, `login_attempts`, the password | login and lockout, sessions, invitations, resets, changes | Accounts |
| Configuration (`configuration/service.ts`) | `journeys`, `services`, `fields`, mappings | create, map, edit, deactivate | ConfigurationPurge, LeadFields, JourneyStatuses, FieldForm |
| Purge (`configuration/purge*.ts`) | the rows that refer to an entity | preview, purge | ConfigurationPurge |
| Import (`import/`) | `import_jobs`, `import_job_rows` | preview, commit, rows under savepoints | LeadImport, ImportWizard |
| Notifications (`notifications/`) | `notification_rules`, `notifications` | edit rules, evaluate them | Notifications, RuleEditor |
| Field permissions | `field_visibility`, role versions | replace by role, replace by field | FieldVisibility, RoleEditor |
| Search, filters, export (`leads/filter-*.ts`, `export/`) | none; addresses and cached pages | filter, page, export | LeadAccess, SellerList, LeadExport |
| Attachments, tools (`attachments/`, `tools/`, `storage/`) | a row per file, the bucket | put, replace, remove, download | StoredFiles |
| Validation, CSV (`packages/validation`) | none | validate values, evaluate formulas, scan and write CSV | LeadFields (CSV is not modelled) |
| Web client (`apps/web`) | query cache, drafts, the address | every page that keeps a copy of server data | Board, LeadForm, OrgChart and the pages named above |
| HTTP layer, infrastructure, placeholder packages | none | | no |

How they interact:

* **Dispatch.** `writeActivity` records an activity and, inside the same
  transaction, calls the consumers in order: notifications, campaigns, routing
  (`leads/trigger-dispatch.ts`). An error of any of them takes the user's change
  back. Routing writes an activity of its own that routing ignores: one hop.
* **Shared rows.** A status change, a reassignment, a manual routing run and the
  retirement of a status write the same assignments and rules. A reassignment
  writes grants that sharing reads; the list and the detail read all of it. Every
  edit of a lead writes its one JSON column.
* **References without a key.** Field values, campaign filters, import mappings and
  notification rules name configuration in JSON: a purge counts them, nothing
  locks them.
* **Calls between processes.** The worker's poll, and the client's requests. A poll
  that fails or times out (Node's `fetch` gives up after 300 s, the length of the
  claim lease) leaves its handler running in the API.
* **Pages.** Each query is answered for the moment it was read, a mutation
  invalidates what it knows to be affected, and what another user does arrives
  with the next reading.

What is hard, and what makes each part correct:

* *Campaign sends.* Several drains, retries and the worker work on one ledger
  and crash, and a drain may outlive the lease of its own claims; an email may be
  repeated only when the record of the first was lost or its lease had run out, and
  pending rows must go out.
* *Routing.* Statements that wait for a rule lock, a row lock and a unique index,
  in different orders; one holder per instance, never none in between (but for
  routing-assign, which is no transaction), a cursor nobody else has read, a history
  that is complete, turns that are even, and nobody waiting in a circle.
* *Sharing.* Requests that read and then insert or update; one share per user,
  nothing revoked comes back, nobody loses a lead without the grace view, whether
  the reassignment is a transaction or a row of statements.
* *Access.* One rule written twice, as code and as SQL (and a third time in Prisma's
  terms), narrowed by routing and widened by shares, along a reporting line that
  loses members, over instances that may have lost their holder.
* *Statuses.* Configuration changes against the requests that rely on the old
  configuration: one default, the one that was chosen last; no instance in an
  inactive status.
* *Administration.* Counts without locks (the last administrator, a team's leader),
  checks of a graph against its writes (cycles of managers), locks taken in
  different orders; each promise must hold unless a request was overtaken.
* *Accounts.* Overlapping logins, a token used twice, a reset beside a change: which
  password and which sessions are left.
* *Configuration and purge.* What was counted may be written after the count; a
  purge must answer for what it removed, and leave nothing it could have seen.
* *Leads' values.* Two edits merge into one JSON object that was read without a
  lock, by settings read in another statement, with formulas over formulas and fields
  locked once they are set.
* *Import.* One transaction with a savepoint per row: the job adds up, a preview
  tells what a commit does in the same state, a file makes no twins.
* *Notifications.* Rules are edited between the two reads of an evaluation.
* *Files.* A bucket and a table without a common transaction; a request stops anywhere.
* *Pages.* A form must not save what it never read, must save what was edited and
  nothing else, must be able to save what it was opened with, and what it offers
  must be what the server takes; optimistic displays must go back; a list, its
  pages and its export must agree with the address.

The 40 hazards in `PROJECT.json` are these at their lines, with the properties
that cover them or the reason why none does.
Where the hazard itself strikes (an overlap the code does not prevent), the note says
so, and the property says that nothing else does the same harm.

## 2. How the modules model the code

* One SQL statement that another request can observe, or be held up by, is one
  step. Where nothing in between can be observed, a transaction is one step, or a
  step for each read and one for its writes: READ COMMITTED lets others commit
  between reads, and hides the writes until the commit.
* A request handler is a session: a record of what it has read and not yet
  committed. Row locks and index entries are not variables: whether somebody
  holds one is read off the sessions. The rule lock is a variable because the
  manual path releases it early.
* A unique index is a guard of the INSERT; when it fails the transaction is gone.
* A statement whose answer is lost took effect before its caller goes on, or not at
  all. The one place where it may take effect later is a request of the browser
  (Board).
* A crash, an exception and a failed statement are `Fail` (`Abort` in the
  ledger): the session is lost, the committed rows stay.
* Time is kept as ages and remaining durations, so that it may pass for ever in a
  finite state space.
* Ids are positive numbers where their order matters (round robin), else model
  values. Names, bodies, templates, formats and logging are left out.
* Counters are bounded by constants whose comment says `bound`. They limit how
  many requests, faults or changes one behaviour has, never what a request does.
* An operator introduced by `Mutant:` is a plausible error in a definition that
  follows it. No specification uses one; `PROJECT.json` names the property that
  fails when it takes the definition's place.

## 3. The modules

### Server components, each proved about in `<Module>_proofs` where there is one

**CampaignSends** is one organization's ledger. A row is a (campaign, lead) pair,
which the table's unique index makes its identity; `BeginDrain`, `Reclaim`,
`Select`, `Claim`/`LoseClaim`, `Deliver`/`DeliverFails`, `Mark`/`MarkSentThrows`
and `Finish` are the statements of `drainPending`, `Abort` a crash at any of them.
The code sets no limit to how long a drain runs (500 rows times the latency of the
mail provider), and neither does the module: `MaxAge` only bounds what TLC explores.
`MarkSentThrows` may have committed its UPDATE or not; the catch then writes `failed`.
`delivered`, `lost` and `taken` count, as history, what the transport accepted, what of
that was never recorded, and how often the row was reclaimed from a drain that was
past its lease and still delivering it.

**CampaignWorker** extends it by the poll loop and the internal route over several
organizations: `Poll`, `NextOrganization`, `Respond`, `PollFails`, `HandlerAborts`.

**RoutingAlgorithms** has `pickRoundRobin` and `pickLeastLoaded`; **StatusRouting**
the sessions that use them: `StatusChange` (editLead, a transaction), `Reassign`
(LeadSharingService.reassign, a transaction) and `RoutingAssign`
(`POST /leads/:id/routing-assign`, which runs the same service on the plain
client, so that every statement commits by itself). Rules, team members and users
change meanwhile. All rules assign one type, since rows of two types never meet.

**AssignmentCustody** is the abstract specification of the same component: an
instance has one holder, who is replaced in one step that the activities tell as
it happened. `StatusRouting!ImplementsCustody` is the refinement: the holder is
the user of the current assignment row.

**LeadSharing** is one lead with its shares and its (instance, type) slots. A
reassignment that is a transaction reads (`ReadSlot`), decides about the grace grant
and commits; routing-assign runs the same code statement by statement: `End`, `Create`
or `CreateConflicts`, `DecideGrace`, `InsertGrace`, with `Fail` after any of them.
`owed` are, as history, the ended assignments whose user was entitled to a grace grant
and has not got it, `cut` those whose routing-assign stopped short. Whether users are active and entitled to a grace grant is left open, so the
results hold whatever the permission tables say.

**LeadAccess** is one lead with its instances, holders, shares, and the rules,
users, roles and reporting lines around it. An instance may have no current assignment:
`EndAssignment` and `CreateAssignment` are what routing-assign does to it. `Opens` is `resolveAuthorization` for
one instance, `VisibleInstances` what the detail shows, `Listed` the predicate of
`buildSellerListQuery`, `Team` the walk of `expandTeamUserIds`. A second part adds
what the list is asked for (mode, journey, status, owner, types) and writes its
predicate twice, as SQL and as the Prisma `where` beside it. Transactions are
single steps here: the decisions are about committed states.

**JourneyStatuses** is one journey: `deactivateStatus` statement by statement, with
its `Promise.all` of one fiber per instance on one transaction, `setDefaultStatus`,
and the requests that enter or change a status. `chosen` is, as history, the status the
last committed request made the default, `overtaken` whether the defaults had changed
since that request read them. Two requests that set the default may take the rows of the
old and the new one in either order; `DeadlockDetected` is the database ending one of a
circle of them. It uses the round robin of RoutingAlgorithms over a pool that does not
change.

**Administration** has users, roles, teams and the bootstrap. A request is a read,
then one step per row lock it waits for (`LockTeam`, `LeaveTeams`), then its writes. `late`
and `stale` are history: who joined a team after a leaving user's memberships had
been listed, and whether another request committed after this one read.

**FieldVisibility** is the `field_visibility` table, replaced role by role and field
by field, with the role versions that tell whoever cached a decision.

**Accounts** is one account: logins with the lockout, sessions, reset tokens,
invitations, password writes. Requests are tasks of clients; two transactions hold
one row and wait for another. Time is a clock bounded by `MaxTime`.

**ConfigurationPurge** is the life of every configuration entity (`life`) and the rows
that name it (`rows`), a relation for each foreign key and each JSON column. `Descriptor`
is the table of `purge.ts`; `Lock`, `Look`, `CountBlocker`, `List`, `Remove` are the
statements of a purge, `Count` and `Deactivate` those of a deactivation; a writer
reads that what it names is active (`Read`) and inserts its row later (`Insert`).
`Refused` is the trigger on statuses, which counts again in the deactivating UPDATE;
journeys have none. `late` are, as history, the rows whose writer had read as active what
was inactive by then, `between` those inserted between a deactivation's count and its
write. Rows that nothing checks first are put, withdrawn and retired in one step.

**LeadFields** has the values of a lead: creating, editing and moving it between
journeys, validation, modes, formulas and their order, and the edits of the Fields
that overlap it. A write of the lead has three steps: it reads the lead (`CreateLead`,
`EditLead`, `MoveJourney`), reads the settings and validates (`Validate`), and writes
(`Save`, `Move`); what an administrator configures anew after the second is `changed`, as
history of that write. A formula is the values it reads and the text it makes of them; a
field whose formula was checked before another's was stored is `stale`, as history.

**LeadImport** is a run of an import with a savepoint per row beside
another run, single creations and changes of configuration. **Notifications** is the
edit of a rule against the two reads of an evaluation in another's transaction; a
reassignment's evaluation sees the assignment its own transaction made, every other
evaluation the committed one.
**StoredFiles** is the bucket and the tables, each request of which may stop after
any statement: a document is uploaded before its row is inserted and removed after it,
a resource is replaced under a key of its id, version and name.

### Pages of the web client

Each models what the page holds (the query cache's entry, drafts, what is being
asked), the requests it sends and what the server does with them.

| module | page | its question |
|---|---|---|
| Board | the Kanban board | optimistic moves over paged columns go back when refused; a move given up by the client may yet be carried out (`adrift`, `ApplyLate`) |
| RoleEditor | Fields and tools with their grants; a role's permissions | a complete set that is sent back was read first |
| FieldForm | the definition of a Field | what the form lets through, the server takes |
| ImportWizard | upload, map, preview, commit | what is committed was previewed |
| LeadForm | a lead's edit form | a save of the whole record changes what was edited |
| RuleEditor | notification rules | a switch does not rewrite recipients |
| JourneyPage | statuses and field rules of a journey | several open drafts on one list |
| SellerList, LeadExport | the list with its address, filters, pages; its export | what is shown is what the address asks |
| RoutingPanel | a status' routing rule and grants | what the button lets through is taken, though teams and users retire under the draft; a click changes its own grant |
| CampaignDesk | campaigns | a save changes title, target and text and nothing else |
| OrgChart | the reporting tree | everyone once, loops broken and told |
| SellerPage | the record with its dialogs | a dialog keeps what was not chosen, and a status goes to an instance that offers it |

### Instances

`MCStatusRouting` and `MCLeadAccess` give one component its model values and first
states; JourneyStatuses and LeadSharing need none. `MCRoutingSends`, `MCAdministration`,
`MCConfiguration`, `MCServices`, `MCWebClient` and `MCProgress` put several components side by side that share no
state: a variable `part`, chosen by Init, says which of them moves, and the others
stand still. A property of such a module asks every part its own question.

What is proved about is EXTENDed there, so that TLC evaluates its assumptions and
checks the very properties the theorems state: StatusRouting and CampaignSends by
MCRoutingSends, Administration and
RoleEditor by MCAdministration, ConfigurationPurge, LeadFields and Board by
MCConfiguration, and LeadImport, Accounts, StoredFiles, Notifications and ImportWizard by
MCServices. The others are
instantiated. Some parts split one component (the lockout
beside one password, the passwords without failed logins; every mapping of one file,
few mappings of two): each half is an instance whose steps meet a condition that
MCServices names.

## 4. What the runs show

| run | instance | states | shows |
|---|---|---|---|
| `progress` | CampaignWorker with 2 organizations and a manual drain, one fault; StatusRouting with a routing-assign beside a status change and a reassignment | 151 785 | every pending row is offered to the transport; every request ends |
| `routing_sends` | StatusRouting: 2 status changes, 1 reassignment, no routing-assign; a user-pool rule whose cursor is at a user who left, and a team-pool rule; 3 requests, 1 configuration change. CampaignSends: 1 campaign, 1 lead, 2 drains, lease 1, drains of up to 2 ticks, 2 attempts, 2 faults | 1 559 947 | AssignmentCustody is implemented; history chains; the cursor a pick used is the stored one; turns are even. Deliveries overlap only for a row taken from a drain past its lease, repeat only for such a row or a lost record; attempts are never understated; final outcomes stay |
| `routing_manual_unheld` | routing-assign and a status change | violation | refutes NeverUnheld |
| `sharing` | 2 users, 2 slots, 2 sessions of any kind, grants with expiry | 857 653 | one share each; the previous holder keeps a view |
| `access` | a viewer of every scope, a manager, an assignee, 2 journeys, 2 instances, with or without a holder, two charts, one a loop | 415 744 | list and detail agree; the walk finds the line below; no query shows more than access admits; a departure hides only what the leaver held |
| `statuses` | 3 statuses, 2 instances, 2 setters, 1 retirer, 2 changers, 3 requests, a journey with one default or none | 151 007 | the last choice stands; even turns for single moves; every request ends |
| `statuses_crossed` | the same with 2 requests | violation | refutes OneDefault |
| `administration` | 3 users, 2 roles, 2 teams, 3 organizations to start from, any two requests; field visibility; the field and role pages | 779 970 | teams are led and served; no deadlock; administrators, roles and reporting lines are lost only to a request that was overtaken; sets that are sent back were read |
| `configuration` | eight worlds of up to three entities, two sessions; three fields and two journeys; two cards on a board of three columns | 952 475 | a purge answers for all it removed; inactive configuration is quiet; formulas are right; a quiet board is true |
| `services` | two imports; rules and evaluations; one account; documents and resources; the import page | 634 351 | jobs add up; new holders are told; the account is guarded; stored rows have objects; commits were previewed |
| `client` | the ten other pages with their server side | 2 325 108 | pages change what was edited, offer what is taken, show what was asked |
| `campaign_reactivated` | CampaignDesk | violation | refutes SavesNeverSwitch |

A property that asks several components is a conjunction:

* `AccessIsOne`: SurfacesAgree, RoutedIsForTheLine. `QueriesStayWithin`: FormsAgree,
  FiltersOnlyNarrow, MineShowsWhatOpens.
* `AccountIsGuarded`: LocksAreEarned, WritesEndSessions, TokensSetOnce,
  InvitesPrecedePasswords, ChangesReplaceWhatTheySaw.
* `ImportsAddUp`: JobsAccountForLeads, StopMeansNothing, NoTwins, PreviewForetells.
  `ConcernedAreTold`: RecipientsAreOneEdits, ToldByARule, NewHolderIsTold.
  `FilesAreStored`: DocumentsAreStored, SerialEditsKeepTheFile and SerialDownloadsMatch.
  `CommitsWerePreviewed`: ProblemsAreTold, SettledCommitsWerePreviewed.
* `ValuesAreRight`: FormulasEnd, FormulasAreRight, LockedIsKept of LeadFields.
  `FieldSidesQueue`: SidesWaitOneWay and EveryChangeIsTold of FieldVisibility.
  `SavesChangeWhatWasEdited`: the field page's SavesWriteWhatWasRead, the role page's
  PutsKeepTheRest and CapabilitiesFollow.
* `RequestsChangeWhatWasEdited`, `OfferedIsTaken`, `ShownIsOfTheServer` name the
  part's formula for each page in MCWebClient.

*Why the bounds are enough.* Each race in the code is between two requests over
one row, index entry or lock, with at most one third party that moved the row in
between: two or three sessions, two instances (least-loaded counts, fibers) and
as many requests as sessions reach them. A lease of one tick and drains of two tell
"before" from "at" and "after" the expiry, for the drain itself and for the one that
reclaims its row. Two grants are a share and a grace grant of one
pair. Three users tell a pool's successor, wrap-around and an outsider apart, and
make a reporting line of depth two. A purge meets one entity of each kind it can
be blocked by and one row per relation. Two cards of one column, on pages
of one card, and three columns reach both of the board's ways to go wrong. A page is asked one or
two saves over one or two edits with one foreign write between reading and
saving (the Field form and the journey in a part of their own, with one edit and two
writes). Every action of every module fires in a passing run, and every property
is broken by a mutant in its own run. Deadlock is checked in
`access`, where the system goes on for ever; elsewhere a bound on requests, edits
or writes ends the behaviour, and waiting in a circle is a property instead
(NoDeadlock, EveryRequestEnds).

*Symmetry* is used where no property or first state names the permuted values
(sessions, instances, grants, cards, clients, passwords) and never with liveness.

*Fairness.* Liveness is stated for what the runtime owes: a handler whose query or
delivery can return goes on (`WF` of the steps of `drainPending`, of
`NextOrganization`, `Respond`, and of `Proceed(x)` for every session), the
worker's timer fires and time passes (in `progress` between drains only: how long one
takes is asked in `routing_sends`). A statement that waits for a lock is
disabled, so that a circle of waiting sessions shows up as a request that never
ends; only between two that set the default of a journey is there one, and PostgreSQL
finds it (`DeadlockDetected`). Nothing is assumed of users and administrators, nothing has to fail, and
weak fairness is enough because a lock waited for stays free once its holder has
ended or somebody else takes it and ends in turn, with finitely many requests.

### Where the code departs from its documentation

Three runs refute what a comment says of the program:

* `routing_manual_unheld`: routing-assign is not a transaction. Between ending one
  assignment and inserting the next (`routing/service.ts:253`) the lead has no
  holder, and keeps none when the insert fails. It may also leave out the
  activity, so HandoversChain and CursorIsFresh are stated, and proved, for the
  transactional paths; `ManualEndsUnhold` is proved with routing-assign at work.
* `statuses_crossed`: `setDefaultStatus` reads the defaults without a lock
  (`configuration/service.ts:464`) and unsets those it read, so two requests that
  overlap both leave theirs, against the comment at lines 449-454. `LastChoiceStands`
  says what is true instead.
* `campaign_reactivated`: a save of a campaign writes `active` back from a row it
  read before (`campaigns/service.ts:121`), so it undoes a deactivation that
  overlapped it, although activation "is its own operation".

The modules hold further statements of comments and documents as definitions that
TLC refutes when they are added to the run of their module. No run checks them;
each is named here with where it is stated.

| definition | stated at | what happens |
|---|---|---|
| CampaignWorker!OrphanIsReclaimed | migration comment on the lease | the drain of all organizations looks for *pending* rows (`send-service.ts:135`); a row left `sending` by a crash waits until another becomes pending |
| CampaignSends!AtMostOneInFlight | `send-service.ts:25-28`, `endpoints.md:190-192` | a drain reads its clock once (line 54) and stamps every claim with that reading (line 85); nothing bounds how long it takes, and when it outlives its lease the next drain reclaims the row it is still delivering. What is true instead: OverlapsAreOverruns, DuplicatesAreExplained |
| JourneyStatuses!TurnsAreEven | ADR-0015, round robin under the rule's lock | the fibers of one retirement of several instances share the rule lock, read one cursor and pick one user for all |
| RoutingPanel!CursorIsOfThePool | `rule-service.ts:321-324` | only a change to a team pool resets the cursor |
| RoutingPanel!EverySaveIsTaken | `StatusRoutingPanel.tsx:36,289` | a pool whose team was deactivated after the rule was made, and an assignment type of blanks, are offered for saving and refused (`rule-service.ts:331`, `routing/validation.ts:20`) |
| RoutingPanel!SavedGrantsStay | `StatusRoutingPermissions.tsx:47-51` | a save before the refetch starts from the set that was read before the last save |
| JourneyStatuses!InUseIsActive | `endpoints.md:413` | a change that found the status active commits after its retirement |
| JourneyStatuses!TimelinesAreTrue | `endpoints.md` | a retirement writes activities for the instances it listed and moves those it finds later |
| LeadSharing!NobodyIsCutShort | `reassignment-grace.ts:10` | routing-assign decides and inserts the grant after it has ended the assignment, in no transaction (`routing/service.ts:250-303`); if it stops in between, an entitled previous holder is left without |
| LeadSharing!ExpiredIsNoObstacle | `access-model.md:172` | an expired share keeps its index entry; the grace grant meets it and the reassignment is rolled back |
| LeadAccess!SurfacesAgreeOnTheUnheld | `prisma-permission-repository.ts:145` | an instance that a routing-assign left unheld opens to a scope of the organization (`scope.ts:120`), but the list asks for an assignment (`filter-sql.ts:203`) and omits it |
| LeadAccess!TheLineAboveSees | ADR-0020 | when the assignee is deactivated nobody above sees the lead: the walk leaves inactive users out of its result |
| LeadAccess!RowsShowWhatOpens | `prisma-lead-repository.ts` | a row comes with every active instance in the viewer's journeys, also with those the detail refuses |
| LeadAccess!FormsAgreeOnOwners | `phase13b.postgres.integration.test.ts` | two spreads of `userId` (`prisma-lead-repository.ts:792-793`): the second drops the owner that was asked for when the scope is below the organization; the test asks for no owner |
| Administration!EveryActiveTeamIsLed | ADR-0014 | whoever is made the leader of a team after their memberships were listed for their deactivation leaves it without one |
| Accounts!FailuresLock | `docs/api/auth.md:11` | failed logins that overlap read one count and write the same next one |
| ConfigurationPurge!NothingIsOrphaned | ADR-0017 | values, filters, mappings and scopes in JSON are inserted after they were counted |
| ConfigurationPurge!InactiveFieldsGainNoValue | `purge-service.ts:34-37` | the writer read the Field as active |
| LeadFields!NoChains | `calculation.ts:18-21` | a plain field that a formula refers to may be given a formula itself |
| LeadFields!FormulasStayRight | `validation.ts:58-60` | a write by way of another journey does not compute them |
| LeadImport!NobodyWhoLeft | `prisma-import-repository.ts` | users are looked up once, before the first row |
| Notifications!OnlyTheActiveAreTold | phase-9 plan | holder, manager, previous holder and creator are not filtered |
| Notifications!OtherTriggersAreUnrestricted | `notifications/service.ts:202-206` | the code below it does compare the scope |
| StoredFiles!DownloadsMatch | `tools/service.ts:105-108` | two edits of one version share one key |
| Board!NoDrift | `useMoveLeadStatus.ts:87-91` | a card dragged on while its first move is in flight is taken by the server out of a column that the second move does not know, which nothing reads again |
| RoleEditor!UntouchedGrantsStay | phase-13a plan, `FieldsPage.tsx:142-147` | an editor that opens on a cached set of grants sends that set back, though the reading that would replace it is under way |
| FieldForm!ModeFollowsType | `FieldsPage.tsx:602-608` | a new text Field that is made calculated starts with an arithmetic calculation |
| RoleEditor!UntouchedIsClean | `admin-guide.md:444-445` | a page opened again on a role in the cache compares its empty drafts with it |
| ImportWizard!CommitsWhatWasPreviewed | `ImportPage.tsx:37-44` | what is edited while a preview is being made is in the commit, and the preview is shown all the same |
| LeadForm!NoValueReopensBlank | `LeadFormPage.tsx:54-59` | the form asks for the fields it knows by then, the first page of the catalogue; a field of the journey beyond it reopens blank |
| RuleEditor!UneditedRecipientsStay | `NotificationRulesPage.tsx:391-395` | what the editor cannot show of a recipient is dropped |
| SellerList!OthersStayWhenOneIsEdited | `SellerListPage.tsx:47-51` | giving one condition a value writes the address, from which the builder is filled again without the half-built ones |
| OrgChart!PagesAreThere | `shared.tsx:94-99` | rows and total are two queries: with a hire between them the load waits for a page that is not there |
| OrgChart!OnlyHandsOpen | `OrgChartPage.tsx:94-95` | closing one branch during a search keeps the ones the search opened |

Noticed while modelling, without a definition of their own: the last administrator
can be lost without any race once a live user is in a retired role
(`prisma-admin-repository.ts:130`); the retry and drain of campaigns do not look at
`active` (`routes/campaigns.ts:238`); `createLead` on an existing lead does not ask
whether it is active (`leads/service.ts:143`); a status filter is documented in
`routes/leads.ts` as refused where the decision admits it; the `shared` flag of a
list row ignores expiry; the share dialog writes back the capabilities of the page's
copy (`LeadShareDialog.tsx:157-159`); the client accepts any answer to `setActive`
but `false` as true; pages of the list past its end say that there are no sellers
yet; a campaign's name or subject of blanks only passes the page's test
(`CampaignsPage.tsx:356-358`) and not the service's (`campaigns/service.ts:190-193`); pages and exports read by offset repeat or skip rows that move meanwhile.

## 5. What is proved

TLAPS checks every theorem below for all values of the constants (any number of
users, sessions, instances, rows, any first states the assumptions admit), under
the assumptions that the modules name: finite sets, disjoint kinds of sessions, null
values outside the types, positive durations. TLC evaluates them in each run. Each
proof has one step per action and under it the conjuncts the action disturbs.

**CampaignSends_proofs.** Everything here holds for drains that run as long as they
like, past the lease of their claims too. `TypeCorrect`. `AttemptsAreCounted`: the
deliveries of a row and the drains now sending it are together at most its
attempts, because a claim counts the attempt before the transport is called.
`OverlapsNeedOverruns`, `DuplicatesStayExplained` and `FinalOutcomes` from one
invariant, a balance (Balanced): the drains delivering a row, and one more if another
claim could be won without anybody having outlived a lease, are at most one more than
the times the row was *taken* from a drain past its lease; its deliveries, and those
still to come of such claims, at most one more than the takings and the lost records.
A claim moves its row from "could be won" to "being delivered" and leaves the
sum as it is; a claim of a row whose drain is still at work is what `taken` counts. With
it, a row that was never taken is `sending` under the drain that delivers it, except
for one whose 'sent' was committed and its answer lost (Kept). `AtMostOneInFlight` itself
is false, see above.

**StatusRouting_proofs.** `TypeCorrect` and `OneCurrentAssignment` for all three
kinds of sessions. For the second, `PendingInv` says that an uncommitted insert is
alone at its key and supersedes all that is current; two inserts exclude one
another through `KeyFree`, and `UniqueFor` stays true until the commit because
ended and current rows are held. `OnlyManualEndsUnhold`, also for all three kinds: the
step that leaves a held instance unheld is the UPDATE by which a routing-assign ends
the row it read, and no other. Under `RoutingAssign = {}`: `TransactionsPickFresh` (a session between lockRule and
commit holds the rule lock, and a locked rule is as it was read: LockInv);
`TransactionsTellTheHistory` (rows and activities are one sequence, the current
row is its last: HistoryInv, with PairedInv: what is ended is what was read);
`TransactionsImplementCustody`, the refinement, from the same invariant: a commit
that inserted a row maps to `HandOver`, every other step to a stutter; and
`TransactionsTakeTurns`, for any rules whose team pools have no users of their own (a
rule is written with them for a pool of users only) and as long as nobody changes the configuration: the
invariant is that a status change's pick is the one its locked rule would pick again,
and that the users from the first cursor up to the present one have had one turn more
than the others. That fact about a cursor that goes round is a lemma on
`PickRoundRobin` (RoundRobinGoesOn), not an induction over the history.

**LeadSharing_proofs.** `TypeCorrect`, `OneShare`, `OnlyWane`, `HolderKeepsView`,
without condition. OneShareEach is inductive once sessions are known to refer to
rows that exist and that belong to whom they read (Informed). HolderKeepsView is about
reassignments and routing-assigns alike: whoever is owed a grace grant is the
previous holder of a request under way, or was cut short by a routing-assign that
failed (`cut`), which no transaction adds to.

**LeadAccess_proofs.** `TypeCorrect`, `SurfacesAlwaysAgree`, `RoutingNarrows`,
`DeparturesHideLittle`, and about the list's own parameters `FormsAlwaysAgree`,
`FiltersAlwaysNarrow`, `MineAlwaysOpens`; `AccessStaysOne` and `QueriesAlwaysStayWithin`
put them together as the run checks them. The invariant: a lead has one open
instance in a journey, and all its instances are open while it is active. The
agreement is then a chain of equivalences between the clauses of the SQL and the
branches of the decision, with and without a holder: an instance without one differs
for a scope of the organization alone, and the theorem says so. DeparturesHideLittle needs only that the walk passes
through inactive users, whatever set it computes. `TeamStaysTheLineBelow` says which
set that is: the active users whose chain of managers leads up to the user, in any
chart, loops included. The walk's recursive function and the chain's are first shown
to have a value at every step (`Upward`: an argument on the least step that fails, with a
set in the place of the predicate that the library's induction theorems want), then a
user reached in n rounds is one with the walker n places above, and a chain longer
than there are users repeats itself.

**JourneyStatuses_proofs.** `TypeCorrect`, whose invariant adds that a request names
the statuses and instances it works on; `LastChoiceAlwaysStands`, for any number of
requests that set the default: what the last one to commit chose is the default, and
the only one unless the defaults had changed since it read them, because what a
request is about to set is none of what it unsets (ChoiceInv); `SinglesAlwaysTakeTurns`: retirements of one
instance and status changes share a rule's pool evenly as long as no retirement of
several has committed. Its invariant has the way of each session (a single one's pick is the
next of the cursor, and the rule is its own from the pick to the commit) and the
count of rounds.

**Administration_proofs.** `TeamsStayLed`, `MembersKeepServing` and `LocksNeverDeadlock`
from one invariant: the shape of a request at each of its statements, a row lock
has one holder, whoever is named exists, new ids are apart, everyone who is in a
team and not in the list of memberships a leaver found joined late, a locked team
has a leader left unless it is about to be deactivated. NoDeadlock follows because
locks are taken in the order of team ids: of two requests, the one that holds the
greater id waits for a greater one still. `ReadsStayGood`:
what a request read of users and roles is true until another request commits; from
it the action properties `RolesServeUnlessOvertaken` and `AdministratorsStay`, and
`ChartAlwaysStaysLoopless`: the step that closes a loop of managers is the commit of an
update of a user that something was committed beside. The line the request walked is the
line in the chart as long as nobody else commits (LineIsSound, a part of ReadsStayGood);
a line that ends does so within as many places as there are users, since otherwise two
places of it would hold one user (EndsWithinSize, by the pigeonhole fact on finite
sets, hence the assumption that users are finitely many); and giving u a manager whose
line ends without u leaves every line ending (NoLoopIsClosed).
`FieldSidesAlwaysQueue` is about FieldVisibility, which the module instantiates beside:
the row locks of two requests are apart, a field's side takes its roles in
ascending order, and once it has listed the affected ones no other request can give
the field to a role it did not list, since the other's rows wait for the field. A
commit therefore never changes a role whose version it leaves. Its assumption
(`VisibilityAssumption`: ids are numbers and the values for "none" are not among
them) is an operator, which MCAdministration assumes of its instance.
`SavesAlwaysChangeWhatWasEdited` is about the two pages that send back a whole set.
RoleEditor: lists of rows with one row for a key (IsRows) are closed under every
control of the page, and each control leaves the rows at the keys it does not name
(Edits); what two edits change one after the other is changed at the keys of both
(AgreeOn), so a draft that was taken from a role differs from it where it was edited
(DraftsInv), a save carries that difference (PutsInv), and rewriting the scopes that
decide nothing does not disturb it (FixAgrees). Reads of the own grants belong to saves
that wait for them; with one at a time the client's belief is right unless a save of
permissions is between its write and its answer (GrantsInv). The field page: an untouched
draft holds what its record has had, once it was read into it, and a save that writes
its grants from an untouched draft has waited for that (DraftFits, SaveFits); what a
record has had only grows. The filter over rows is a recursive function, unfolded step
by step (ThoseAre, OnlyIs).

**Services_proofs** has five components.

* *Accounts.* The five parts of AccountIsGuarded and the whole. Each needs what
  a request has read to be bounded by what has been recorded since: the failures a
  login counted (Covered, ReadInTime), the token a reset claimed (ClaimsHold), the
  hash a change compared with (HashIsOfTheLastWrite).
* *LeadImport.* `ImportsAlwaysAddUp`. The job's counters are those of its outcomes, which
  is what a run knows of the rows it has passed (ImportInv); the keys it holds are
  those that were there as it began and those of its own rows (Foresight); and an
  outcome follows from the row, the keys and the configuration (Determined), so that of two
  runs in the same state the first row they treat differently cannot exist.
* *StoredFiles.* `FilesStayStored`. A document whose row is there was uploaded and is not
  yet removed, and no other row has its key (DocumentsSafe); edits of a resource that
  did not overlap have each its own version, hence its own key (SerialSafe).
* *Notifications.* `ConcernedAreAlwaysTold`. What an evaluation has read of a rule and of
  its recipients is of one edit, or of two that met; the new holder it tells is the one
  a reassignment wrote in its own transaction (NoteInv).
* *ImportWizard.* `CommitsStayPreviewed`. The preview on the page's screen is of the file, the
  mapping and the option as they are, a preview that is being made too, and a commit
  of what was on screen, each unless something changed before the answer; a preview
  that is asked for has a mapping refused for two reasons at most (WizardInv).

**Configuration_proofs** has three.

* *ConfigurationPurge.* `PurgesStayAccountedFor`, `InactiveStaysQuiet` and the
  action property `OnlyInactiveArePurged`. The invariant follows a purge through its
  statements: what it holds locked, which relations it has found clear and that a
  relation with a key stays clear while the entity's row is locked, that its
  snapshot has every row that will go with the entity, and that a writer knows what it
  names is active unless it was overtaken. A deactivation of a journey that has counted
  knows that what is open there was inserted since (Counting), which is why the count
  matters to InactiveIsQuiet. `DescriptorsCover` is the lemma about the
  descriptor table that makes the delete free of foreign-key errors: every relation
  with a key is counted or goes along, for each of the seven kinds.
* *LeadFields.* `ValuesStayRight`. A formula that is being stored and was not overtaken
  refers to no calculated field (Fresh), so that a walk along formulas ends after one
  step. A write of a lead reads its settings, validates and stores in three steps; what
  it has worked out is right by the present settings, but for the fields that were
  configured anew since it read them (Settled, with SettledStays for the steps of others).
* *Board.* `QuietBoardStaysTrue`, for any columns, page size and number of moves in
  flight, and finitely many cards. Of a column that no move in flight touches, either
  the pages shown are pages of what the server has, or those read so far are (Known),
  unless "Load more" abandoned its refetch or the server carried out a move that its
  client had given up (`missed`; ApplyLate). A move covers its two columns from the drop
  to the reads that its answer starts; in between the column may show anything, so that
  the snapshots, which may hold another move's patch, need only be pages at all.
  When the server applies a move the other columns keep their cards because a card has
  one status (OneHome). That the pages put together are the beginning of the column
  (PagesArePrefix), and that a patch keeps pages pages (WithoutIs), are shown for the
  recursive functions they are computed by, again with `Upward`.

*Only model-checked.* Liveness (`PendingIsDrained`, `EveryRequestEnds`), since
fairness is beyond the prover. The pages of MCWebClient: `PagesTypeOK`,
`OfferedIsTaken`, `ShownIsOfTheServer` and `RequestsChangeWhatWasEdited`, each a
conjunction over up to ten pages that it instantiates. Type correctness of CampaignWorker.

## 6. Not modelled

* HTTP: parsing, cookies, rate limits, permission checks of routes other than those
  of leads, routing and campaigns; they are guards before one service call.
* Formats: CSV scanning and writing, rich text, mails, file types, text search.
* The notification inbox, comments, services of a lead, audit rows, the preference
  for view access after a reassignment.
* The last guard of a role's purge (`last_permission_administrator`), which its own
  comment says cannot fire.
* Pages that only show and post: dashboard, settings, users, teams, login.
* Placeholder packages and infrastructure: no behaviour.

## 7. Plan

Every module planned is written, and every invariant that a run checks is proved, but
for those of MCWebClient. What is left:

* **Pages that send a whole object** (CampaignDesk, RoutingPanel, SellerPage):
  RequestsChangeWhatWasEdited, from what a draft knows of its copy, the way
  `SavesAlwaysChangeWhatWasEdited` does it for a role.

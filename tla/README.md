# A TLA+ model of PSEAutomation

PSEAutomation builds, checks and removes Cloudera workshops. Three parts of it
carry logic worth a model: the **provisioner container** (`OnCloud/AWS/build`), a set of shell functions,
Terraform stacks and Ansible playbooks that a Jenkins job runs as *provision* or
*destroy*; the **cluster validation** tools (`ClusterValidation`), a
launcher and a smoke test driver in Python that share a short-lived EC2 machine;
and the **TPC-DS kit** (`CDP_Validation_TPCDS/spark-tpcds-kit/tools`), the C
programs that generate the data and the queries a new cluster is validated with.

The first two create costly things in a cloud account through calls that fail,
are killed half way and are repeated by hand. What can go wrong is rarely in one
call: it is in what an interrupted run leaves, and in what the next run takes it
for. The kit is deterministic, but its promise is not a simple one: hundreds of
processes that never talk to each other, some of them killed and started again,
write the rows one serial run would have written, consistent in keys and dates
across tables that are built far apart.

Contents: [inventory](#inventory), [the modules](#the-modules) and how they
correspond to the code, [the runs](#the-runs), [bounds](#bounds),
[fairness](#fairness), [the proofs](#the-proofs),
[what the code does differently from what it says](#divergences),
[what is not modelled](#not-modelled), [plan](#plan).
Paths are relative to the repository's root; `hol-functions.sh`, `hol-output.sh`
and `docker-entrypoint.sh` are in `OnCloud/AWS/build/entrypoint/`, playbooks
in `OnCloud/AWS/build/cdp-wrkshps-quickstarts/cdp-data-services/`, and `.c`, `.h`,
`.dst` and `.sql` files without a path in `CDP_Validation_TPCDS/spark-tpcds-kit/tools/`.

## Inventory

### Provisioner container

`docker-entrypoint.sh` calls the functions of `hol-functions.sh` one after the
other. *State that outlives a run:* the AWS and CDP accounts, and the directory
`/userconfig/.<workshop>` with one Terraform directory per stack (`keypair_gen`,
`keycloak_terraform_config`, the CDP quickstart, `aws-enhancements`), the
generated private key, `keypair_generated.flag` and `keycloak_ip`. *State of a
run:* shell variables (above all `aws_key_pair`) and background jobs.

| Part | Operations | Correct when |
| --- | --- | --- |
| key pair (`check_key_pair`, `generate_keypair`, `destroy_keypair`) | generate, reuse, record, destroy | a generated pair is destroyed with the workshop |
| Keycloak stack (`setup_keycloak_ec2`, `destroy_keycloak`, `hol_keycloak_already_provisioned`) | apply, save address, DNS, skip when already there, destroy, roll back | a rerun never takes half a stack for a whole one; what exists stays in a Terraform state |
| CDP stack (`provision_cdp`, `destroy_cdp`, `run_cdp_terraform_destroy`) | apply, destroy with retries, roll back | destroyed only when nothing else uses it; a failed rollback can be repeated |
| log policy (`aws_enhancements`, `destroy_aws_enhancements`) | attach, detach | detached before the CDP stack goes |
| identity provider (`cdp_idp_setup_user`, `cdp_idp_user_teardown`), user sync | configure, sync, tear down | there when provision succeeds |
| data services (`hol_enable_data_services`, `disable_data_services`, playbooks), CAII | one background job per service, each an Ansible playbook | success means all of them; Terraform does not start under a live service |
| Data Hubs (`delete_environment_datahubs`) | delete all and poll, in a background job | as above |
| parallel wait (`hol_wait_parallel_data_services` in `hol-output.sh`) | poll `kill -0`, collect with `wait`, heartbeat | every job collected once, the status is the truth |
| environment roles (`jenkins/assignCdpEnvAdminRoles.sh`) | assign, verify, sync | the run stops if it could not |
| Jenkins (`Jenkinsfile.DeployHoL`) | start the container, abort with `docker rm -f` | abort at any point leaves something destroy can finish |

*Interaction:* the entrypoint calls functions in sequence and starts jobs with
`&` whose statuses it collects; the functions meet each other in a later run only
through the files and the accounts. *Hard behaviours:* failure and abort at every
call, reruns on what was left, two jobs deleting at once, participants who create
Data Hubs meanwhile, reads that fail and look like absence.

### Playbooks

`enable-*.yml` and `disable-*.yml` start an asynchronous operation of a CDP
service and poll one or two APIs that show it late. The CDF pair
(`enable-cdf.yml`, `disable-cdf.yml`, `cdf-enable-api-attempt.yml`) is the
richest: two views that may disagree (`list-services`, `df_service_info`),
retries while permissions propagate, operations already in progress, users who
enable or disable in the UI. Correct when *disabled* means gone and *enabled*
means healthy.

### Cluster validation

`launcher/container/launcher.py` creates an IAM role, an instance profile, a
security group and an instance, waits for SSM and writes a **handoff** document;
on any error it rolls back. `smoke-tests/container/smoke.py` reads the handoff,
runs a probe on the machine, writes reports and tears the machine down. *State:*
the account, the identifiers recorded in memory (`Launcher._created`), the
handoff. *Hard behaviours:* a call that takes effect and whose reply is lost, an
instance profile that is not visible yet, a security group held by the network
interface of a dead instance, resources that refuse deletion while they are
wired to each other, kills. Correct when the handoff is complete, clean-up leaves
nothing it knew of, and everything ends.

### TPC-DS kit

`dsdgen` writes the tables, `dsqgen` the queries, `distcomp` the file of
distributions both draw from. Each is one sequential C program full of static
state; concurrency comes from starting `dsdgen` many times with
`-parallel n -child i`. *State of a process:* the random number streams (one for
every column, `Streams[]`), the row under construction in a global of its table,
old revisions kept between rows, option values. *State that outlives it:* output
files, which refuse to be overwritten without `-force`.

| Part | Operations | Correct when |
| --- | --- | --- |
| parallel generation (`driver.c`, `parallel.c`, `print.c`) | share the rows, skip streams, build, top streams up, open files | the chunks together are the serial file, also after kills and restarts |
| tables, streams, builders (`tdefs.c`, `streams.h`, `columns.h`, `w_*.c`, `s_*.c`) | how often a row draws from each stream | no row runs over its budget |
| dates and the calendar (`date.c`, `w_datetbl.c`, `calendar.dst`) | convert, build `date_dim` | rows are the days, one after the other |
| scaling (`scaling.c`, `scaling.dst`) | rows of a table at a scale, rows of a day | counts and surrogate keys agree in every table |
| history (`scd.c`, `build_support.c`) | revisions of a key, joins by date | no gap, no overlap, a join ends in the revision of its date |
| order dates, update sets (`w_store_sales.c`..., `scaling.c`, `w_inventory.c`) | step through days, pick dates of a set | a chunk has the dates of the serial run; a row of a set lies on its dates |
| prices (`pricing.c`, `decimal.c`) | price a sale, price its return | the amounts add up |
| printing and nulls (`print.c`, `nulls.c`, the `pr_*`) | one field for each column, blank the nulls | a line fits the table of the DDL |
| command line (`r_params.c`, `driver.c`) | options, parameter files, choice of tables | what was asked for is built, and nothing else |
| validation (`validate.c`, the `vld_*`) | build random rows again | they are the rows of the files |
| distribution compiler (`dcomp.c`, `dcgram.c`, `dist.c`) | compile, index, look up | what is read is what was stated |
| query generation (`QgenMain.c`, `eval.c`, `expr.c`, ...) | order templates, evaluate definitions, substitute | every stream complete; references within a query agree |

*Interaction:* builders of parents call those of children, and share their
global rows; `row_skip` and `row_stop` must agree with `streams.h`, `tdefs.c` and
every builder about which streams a row moves; printing must agree with the DDL.
None of this is checked by the compiler and little of it by a test: the same
quantity is kept in two places by hand. *Hard behaviours:* that agreement, chunk
boundaries, kills, buffers and globals that keep values of an earlier row or query.

### The rest

`OnCloud/Azure` is a near copy of the AWS provisioner. The generators of
`hive-tpcds-kit` and of the other kits are the same code as Spark's, the scripts
and query files around them linear; `PvC-InfraDeployer`, `Utilities`,
`K8SOperators` are linear wrappers, manifests and guides, and
`Participant_amps` a browser automation script. They keep no state that a model
would add anything about.

## The modules

| Module | Models | Lines of code behind it |
| --- | --- | --- |
| `HolPipeline` | runs of the AWS provisioner container | `docker-entrypoint.sh`, about half of `hol-functions.sh` |
| `HolPipeline_proofs` | its inductive invariant and five theorems | |
| `ParallelBatch` | what the callers of the parallel wait are promised | `hol_enable_data_services`, `disable_data_services` |
| `ParallelJobs` | the polling loop that keeps the promise | `hol-output.sh` 297-423 |
| `ParallelJobs_proofs` | its types, its invariants, its result, the refinement | |
| `CdfService` | external: the DataFlow service, its two late views and the user of its UI | how the playbooks use it |
| `CdfPlaybooks` | concurrent runs of the two playbooks of CDF | `enable-cdf.yml`, `disable-cdf.yml`, `cdf-enable-api-attempt.yml` |
| `CdfPlaybooks_proofs` | its inductive invariant and two theorems | |
| `EphemeralRunner` | launcher and driver | `launcher.py`, `smoke.py` |
| `EphemeralRunner_proofs` | its inductive invariant and three theorems | |
| `DsdgenSerial` | what a user of `dsdgen` is promised of the rows | one serial run of `driver.c` |
| `DsdgenParallel` | the processes that share the work | `driver.c`, `parallel.c`, `genrand.c`, `print.c`, `tdef_functions.c` |
| `DsdgenParallel_proofs` | shares, files, stream positions, completeness, the refinement | |
| `DsdgenColumns`, `DsdgenStreams`, `DsdgenTdefs` | the tables in the code: columns, budgets, flags | `columns.h`, `streams.h`, `tdefs.h`, `tables.h`, `w_tdefs.h`, `s_tdefs.h` |
| `DsdgenDraws`, `DsdgenBuilders`, `DsdgenSourceBuilders` | which streams a call of a builder draws from | the `w_*.c` and `s_*.c`, `build_support.c`, `join.c`, `address.c`, `text.c` |
| `DsdgenInstance` | all of that as constants of the modules above and below | |
| `DsdgenCalendar`, `DsdgenDateTable` | dates and `date_dim` | `date.c`, `calendar.dst`, `w_datetbl.c` |
| `DsdgenScaling`, `DsdgenDimension`, `DsdgenOrderDates`, `DsdgenUpdateSet` | counts, histories, the dates of orders and of update sets | `scaling.c`, `scaling.dst`, `scd.c`, `driver.c`, the masters of the sales tables |
| `DsdgenPrinting` | the fields of every line, the DDL, the null bitmap | the `pr_*`, `nulls.c`, `tpcds.sql`, `tpcds_source.sql` |
| `DsdgenDates_proofs` | histories, joins and retained fields; the dates of a child's orders against the serial run; the rows of an update set on its dates | |
| `DsdgenPricing` | prices of sales and returns | `pricing.c`, `decimal.c` |
| `DsdgenPricing_proofs` | the amounts of every draw | |
| `DsdgenOptions` | options, parameter files, choice of tables | `r_params.c`, `params.h`, `driver.c` |
| `DsdgenValidation` | rows picked and built again | `validate.c`, the `vld_*`, `driver.c` |
| `Distcomp` | the compiler of distributions and its reader | `dcgram.c`, `dcomp.c`, `grammar.c`, `dist.c` |
| `DsdgenValues` | the parts from `DsdgenDateTable` to `Distcomp` side by side | |
| `DsqgenStreams` | the loops of query generation and the order of the queries | `QgenMain.c`, `permute.c`, `genrand.c` |
| `DsqgenDistcomp_proofs` | permutations, and that every stream is complete; sequences, and that a distribution is read as it was stated | |
| `DsqgenExpressions`, `Dsqgen` | what a query says: its definitions and their values | `eval.c`, `expr.c`, `substitution.c`, `query_handler.c`, `list.c`, `StringBuffer.c` |
| `MCHolPipeline`, `MCParallelJobs`, `MCCdfPlaybooks`, `MCEphemeralRunner`, `MCDsdgenParallel`, `MCDsdgenValues`, `MCDsqgen` | the instances TLC checks | |

`ParallelJobs` is the detail of one step of `HolPipeline`: there `EnableJob` and
`DisableJob` are whole batches whose status is true, which is what
`ImplementsBatch` and `StatusIsTrue` establish of the code.

### HolPipeline

One behaviour is the life of one workshop: any number of provision and destroy
runs, one at a time: nothing in the code locks the workshop's directory, and two
builds at once on one workshop are left out. `pc` is the step of the running container, `"idle"` between runs.

* **Cloud.** `cloud[s]` is what exists of stack `s`: `absent`, `partial` (for
  Keycloak the security group, for CDP anything less than an environment),
  `instance` (Keycloak's instance without its Elastic IP) or `full`. `services`,
  `hubs`, `idp` and `dns` are outside Terraform.
* **Directory.** `dir` are the Terraform directories present, `owned` the stacks
  whose state there lists cloud resources. `cloud` and `owned` are separate
  because most mistakes are a difference of the two: a directory removed while
  the resources live is a stack nobody can destroy any more.
* **Actions.** One for each function, or for each part of one between two calls
  at which it may fail or be killed. `setup_keycloak_ec2` is
  `PrepareKeycloak`, `ApplyKeycloak` or `KeycloakWithoutAddress`,
  `SaveKeycloakIp`, `UpsertDns`; `generate_keypair` is `GenerateKeyPair` and
  `RecordKeyPair`; `destroy_hol_infra` is `DestroyKeycloak` to `DestroyKeyPair`;
  the `&` and `wait` lines of the entrypoint are `ForkProvision`,
  `JoinProvision`, `ForkDestroy`, `JoinDestroy`, with the jobs
  (`CaiiJob`, `EnableJob`, `DataHubJob`, `DisableJob`) interleaved between them.
  Which statuses are dropped is the code's: `GenerateKeyPairFails` goes on,
  `AwsEnhancements` only warns, `TeardownIdp` and `DestroyKeyPair` go on,
  `RollbackKeycloak` and `RollbackCdp` end the run whatever happened.
* **Failure.** A failing call is a disjunct that takes `Fault`; the outcomes
  left behind are enumerated (`Remains` follows Terraform's dependency order).
  Failures that follow from the state take no `Fault`: an instance with a key
  pair name EC2 does not have (`KeyUsable`), a CDP stack still in use
  (`EnvUnblocked`), a second key pair of the same name. `Kill` is
  `docker rm -f` and may hit any step.
* **Leftovers.** A data service that goes may leave network interfaces, Elastic
  IPs or load balancers in the workshop's VPC (`LeaveBehind`), as
  `docs/oncloud/aws-provisioner.adoc` 110-141 and 165-197 describe. They outlive the
  service and block the CDP stack in every repeated destroy. Nothing in the pipeline
  removes them, since `hol_aws_prepare_vpc_for_terraform_destroy` is never called;
  only the operator does, by hand, and he need not (`RemoveLeftovers`, no fairness).
* **Silent.** The services whose disable playbook may report success although a
  failed read made the service look absent. In the instance this is CDF
  (`disable-cdf.yml` 447-475 looks at an empty default, not at the exit status).

### ParallelBatch and ParallelJobs

The loops of the shell are `pc` in `scan`, `beat`, `test`; `Visit` is one round
of either `for` loop, with `IsReaped`, `Alive` and `Reap` the helper functions.
Jobs are indices; `Token` maps them to services because the list of services may
name one twice (`cml` and `cai` are both CAI), and both loops must go by index.
The operating system may give the process id of an ended job to a foreign
process (`PidReused`), for which `kill -0` succeeds.

### CdfService and CdfPlaybooks

`CdfService` is external: it says what the playbooks have to expect. `svc` is the
state the service is in, `list` and `info` what `list-services` and
`df_service_info` show of it, each now or one change late; `deps` are
deployments, `keep` whether its record will stay behind as `NOT_ENABLED`. The
service carries out by itself what it was asked (`Enabled`, `Disabled`), gets
into trouble and out of it (`Sicken`, `Heal`), may leave the list early
(`DropEarly`), and a user of the DataFlow UI may enable and disable it.

In `CdfPlaybooks`, `Plays` are runs that may overlap: two builds of one agent, or
a service named twice in `ENABLE_DATA_SERVICES`. `pc` is the task a run is at,
`seen` the facts it has registered from the two views, `todo` the tasks whose
`when` was true at the decision, `attempt` the loop over the API requests.
Reading comes before deciding and deciding before acting, with other runs in
between, as in the playbooks:

* `EList`, `EInfo` read; `Decide` is lines 211-276 of `enable-cdf.yml`: success at
  once, failure over a service being disabled, or the tasks `EnablePlan`;
  `Reset`, `Recover` (the module with `state: absent`, its result ignored),
  `PreEnable` (the second look), `EAttempt` (one included file), `EPoll`;
* `DList`, `DInfo`, `DDeps` read, each with an empty default for a failed call;
  `DisablePlan` is what they decide; `TerminateDeployments`, `DisableByCli`,
  `DisableByModule` act; `VerifyDeployments`, `DListPoll`, `DInfoPoll` verify.

`HolPipeline` sees of all this only the outcome, and `DisabledIsGone` is what
justifies its `Silent`: without a failed read in the last verification, a success
of the disable playbook means that the service is gone.

### EphemeralRunner

`aws` is what exists, with the two wirings (`policy` attached, role a `member` of
the profile) that make AWS refuse deletions. `known` are the recorded
identifiers. A create call returns, is refused (`ClientError`), or raises
without or *with* its effect (then the resource is in `lost`). The clean-up calls
of `Launcher.rollback` and `SmokeDriver.teardown` are the same in the same order,
so both are the actions from `TerminateInstance` to `DeleteSecurityGroup`; a
`ClientError` is caught and the next call follows, any other exception (the
`WaiterError` of the termination waiter among them) leaves the clean-up. The
retry loop of `run_instances` keeps its arithmetic: sleeps of 5, 10, 20, 20...
seconds against a deadline that is compared before each sleep.

### DsdgenSerial and DsdgenParallel

`Children` are the processes, all with the command line `job`. A process is
`Launch` (fresh memory, seeded streams), for an update set `CheckDeleteFile` and
`OpenDeleteFile` (two steps, `access` and `fopen`, between which another process
may come), then for every table of `main`'s loop `BeginTable` (`split_work` and
`row_skip`), `BuildRow` (builder, printer and `row_stop`) or `RefuseFile`, and
`Finish`. `Kill` and `StartAgain` stand for a lost map task and the framework
that repeats it with the same command line.

A stream is the number of draws made from it since its seed: the generator is
deterministic (`genrand.c`), so equal counts are equal values. A row takes
`Demand` draws, a set because a builder may draw more or less; `row_stop` tops up
to `PerRow`. `out` records for every row written in which streams it began
elsewhere than a serial run would (`drift`). What a table demands, and which
streams its row moves, is not assumed: `DsdgenBuilders` and
`DsdgenSourceBuilders` give every `mk_*` as a bag of streams, `DsdgenTdefs` and
`DsdgenStreams` the tables of the code, and `DsdgenInstance` puts them together.

### DsdgenValues

What is in the rows, as far as keys, dates and counts go, needs no interleaving:
each module has one or two actions that build the next row from the globals of
the row before. The modules have variables of their own and are composed by
`DsdgenValues`: a behaviour is one of one part, which `Init` chooses, and the
others stay idle. They share the operators of `DsdgenCalendar`,
`DsdgenScaling` and `DsdgenTdefs`, which is where the code shares them.
Random numbers are `\E`; where a range is wide, its ends (see [bounds](#bounds)).
In `DsdgenDimension` the value of a field is the row that drew it, in
`DsdgenPricing` an amount is its cents, in `DsdgenPrinting` it is the name of the
column that it is computed for, and so is a declared column, in `Distcomp` the file
is a sequence of cells, and a name is cut to `D_NAME_LEN` after it was compared. `DsdgenOptions` types command lines the way a user does: abbreviated, in
parameter files, with words that do not belong there.

### Dsqgen

`DsqgenStreams` holds the loops of `generateQueryStreams`, without what a query
says: `BeginStream` shuffles the order once more, `BeginQuery` and `EndQuery` go
through it. `Dsqgen` adds the rest: `ParseTemplate` makes the list of definitions
of each template, `OrderQueries` and `OpenQuery` begin a stream and a query,
`Select` is one turn of the loop over definitions in `GenerateQuery` (empty its
buffers, `EvalExpr`), and `PrintQuery` ends a query with the text that `EndQuery`
writes. Each of these is a step of the loops or leaves `streamVars` as they are,
so what holds of `StreamSpec` holds of `dsqgen`. `mem` is what outlives a query: cells with the query they were
evaluated for, buffers, the permutations that lists keep, the seed. A buffer has
an identity that several cells may share, because the code copies values with
their pointers. A definition may name others; one that was evaluated because it
was named is found done at its own turn.

## The runs

| Run | Distinct states | Shows |
| --- | --- | --- |
| `hol_pipeline` | 377 132 | the invariants and the liveness property of the pipeline |
| `key_pair_left` | violation | see [divergences](#divergences), 1 |
| `provisioned_without_dns` | violation | 2 |
| `rerun_takes_away` | violation | 3 |
| `parallel_jobs` | 17 188 | the polling wait, and that it implements the batch |
| `cdf_playbooks` | 801 582 | two runs of the CDF playbooks, what their success means, and that they get there |
| `ephemeral_runner` | 30 479 | launcher and driver, clean-up and termination |
| `teardown_skipped` | violation | 4 |
| `dsdgen_parallel` | 8 594 | processes with the real streams and builders, kills, and the serial run they implement |
| `chunks_differ` | violation | 5 |
| `dsqgen` | 7 080 | streams of queries |
| `dsdgen_values` | 1 394 045 | what is in the rows, the lines, the command line, the validation |

What holds in `hol_pipeline`:

* `NothingForgotten`: whatever exists of Keycloak, the CDP environment and the
  log policy is in a Terraform state that a later destroy run will find, after
  every sequence of failures, rollbacks and kills. This is the property the
  order "destroy, look at the status, then `rm -rf`" is for.
* `DestroyedIsGone`: *Workshop teardown completed* means the stacks, services
  and Data Hubs are gone. A destroy playbook that is silently wrong cannot
  falsify it, because Terraform then fails.
* `TerraformLast`: the CDP stack is destroyed only after the policy is detached
  and the truthful playbooks have finished; no order of the two jobs breaks it.
* `ProvisionedIsComplete`: *Infrastructure Provisioned* means environment,
  services, and with Keycloak its instance, address and identity provider. The
  saved address that outlives its instance (a failed destroy, then provision)
  makes `hol_keycloak_already_provisioned` wrong; the identity provider step,
  which needs a Keycloak that answers, is what keeps the run from succeeding.
* `RetiredIsDestroyed` (liveness): repeating destroy gets there from every state
  that failed and killed runs leave, with one exception, which the property states:
  what a data service has left in the VPC, and nobody ever removes, blocks the CDP
  stack for good. Once it is removed, the next runs get there.

In `parallel_jobs`: `ReapedOnce` (the counter of the main loop counts jobs),
`FailuresNamed`, and `ImplementsBatch`, the refinement of `ParallelBatch` with its
fairness: the caller is told the truth (`ResultIsTrue`, which the batch implies and
`StatusIsTrue` proves), and the wait also returns.

In `cdf_playbooks`: `SuccessIsTrue` (an action property: *disabled* is said of a
service that is gone or that somebody has begun to enable since, and *provisioned*
of one that was healthy when the run read its state or polled it, however late the views are
and whoever else runs) and `GoalIsReached` (liveness: an operator who keeps starting one
playbook gets what he wants and it lasts, so resets, recoveries, conflicts and
the two polls do not chase each other in a circle).

In `ephemeral_runner`: `HandoffIsComplete`; `CleanUpLeavesNothing`, in which the
exception for `lost` is the honest part: what the launcher never learned of it
cannot delete; `Terminates`; and `HandoffIsTornDown`, which needs that a second
teardown passes over what the first one already deleted.

In `dsdgen_parallel`: `RowsOnce` (no row twice, whoever was killed),
`RowsAreSerial` (every row is built from the draws of a serial run, in every
stream that `row_skip` and `row_stop` keep in step), `DoneMeansComplete`,
`CleanRunSucceeds` (the check for old files never stops a process over a file of
its own run; for the delete files of an update set it does, as their names carry
no child number, and the property says so), `KeepsFiles` (without `-force`
nothing written is lost), `EveryRowIsWritten` (liveness, with `-force` and
restarts), and `ImplementsSerial`, the refinement of `DsdgenSerial`.

In `dsqgen`: `StreamsAreComplete` (every stream has every template once, in an
order that depends on nothing but its number), `OncePerQuery` (every definition
evaluated exactly once for a query, whichever refers to which), and
`ReferencesAgree` (all places that depend on one definition show one selection
of it, made for this query).

In `dsdgen_values`, one property or two for each part:

* `CalendarRows`: all 73 049 rows of `date_dim` are the days one after the other,
  with weeks, months and quarters that move with them;
* `HistoryIsSound`: the revisions of a key follow without gap or overlap, and
  every way from an item and a date to a row ends in the revision of that date;
  `RetainedFromOwnItem`: every field of a revision is that of the last revision of
  the same item that drew it. One field is excepted: `w_web_page.c:153-154`
  overwrites the customer of a web page with -1, after `changeSCD` has saved it,
  while the flag that the revision holds is 0; the property says exactly when, and
  that the customer comes back with the flag. (The -1 for a date 0 in
  `w_web_page.c:143-144` and `w_store.c:146-147` is for dates that are never drawn.);
* `ChunkDatesAreSerial`: the rows of a child have the dates of the serial run,
  unless it begins with the last row of a day: then this row has the next day,
  and later rows the dates they would have if that day's rows had been built;
* `UpdateDatesInZones`: the dates of an update set lie in the zones of the calendar
  they are picked for, those of its inventories in weeks that the base table has;
  `UpdateRowsOnTheirDates`: each date has as many rows as the base table has on it,
  and of an inventory every item and warehouse once;
* `RowsFillTheTables`: a printed line has a field for every declared column, of a
  kind the column can be loaded from and with the value the column is named for,
  and no column declared `NOT NULL` can be blank. Three fields hold the value of
  another column, and `Misplaced` says of which: the warehouse and the catalog page of
  `s_catalog_returns` are exchanged, the discount of `store_sales` is its coupon. The
  last column of `s_promotion` has no field (see [divergences](#divergences));
* `AmountsAddUp`: the amounts of a sale and of its return add up, and a full
  return undoes its sale;
* `CompiledIsRead`: a distribution read back is the one that was stated under its
  name, unless the name of another was truncated to it;
* `CommandIsObeyed`: the options mean what was typed, and the tables built are
  those asked for;
* `ValidatedRowIsSerial`: a row built again out of order starts from the draws it
  has in the files.

Where the code falls short of a property in a corner, the property names that
corner as an exception, with the place in the code; they are listed under
[divergences](#divergences).

## Bounds

* `HolPipeline`: `MaxFaults = 3` failed calls, kills or late Data Hubs in a
  behaviour, any number of runs. Three are enough for the patterns that matter:
  a failure, a failing rollback or clean-up after it, and one more in the rerun.
  The three configfiles set every switch both ways; two services, one of them
  silent, are the smallest set in which a job succeeds for one and not for the
  other. The theorems need none of these bounds.
* `ParallelJobs`: three jobs, two of one service, two reused process ids: one
  job collected in the scan, one in the heartbeat, one late.
* `CdfPlaybooks`: two runs, which is what it takes to get in each other's way; two
  attempts, the first and the last, which alone decides; one disturbance (a
  failed call, a failure of the service or an act of the user), on top of views
  that may be late at every change. A view is at most one change behind: each
  change takes many minutes, a view some seconds. The theorems need neither of
  the first three bounds.
* `EphemeralRunner`: the code's own numbers in units of 5 s (120 s is 24, five
  attempts at the security group). The lags 0, 3, 26 and 40 units are: at once,
  after some sleeps, within the last sleep that starts before the deadline, and
  too late. `EniLag = 4` is the longest the five attempts can outlast. Three
  faults.

* `DsdgenParallel`: the real columns, streams, tables and builders; what is small
  is the row counts. `MinSplit = 4` stands for the 1 000 000 rows below which
  `split_work` leaves a table to the first process; the tables that are large at
  real scales have 5 rows, so two and three processes get unequal shares;
  inventory sits at the boundary and the calendar one below it. Every table is
  asked for alone, and all base tables together; kills (at most one) and runs
  without `-force` for some. The theorems need none of these bounds.
* `Dsqgen`: two streams with two versions of three templates, which have the kinds of
  definitions of the kit's templates, with `-QUALIFY` and without; 30 seeds of a
  generator with modulus 31, so that every number occurs as the first.
* `DsdgenValues`: all of `date_dim`, in overlapping parts that begin every 1000 rows;
  histories at the first and last rows of tables at the scales where a table
  ends inside a history; order chunks that begin on and off the end of a day;
  update dates at the ends of each zone and around leap days; every table's
  line; distributions of up to two columns, rows and names; command lines of up
  to three options, every table with and without `-update` and `-filter`;
  validations of seven rows in a mixed order for every table, alone and behind
  another. Prices: both ends of every range (for the widest, its upper end and a
  value that does not divide) and a third for percentages.

`CHECK_DEADLOCK FALSE` stands where the system stops for good: the wait has
returned, the launcher ended without a handoff, or a part of `DsdgenValues` has
built its rows.

## Fairness

* `HolPipeline`: weak fairness of the steps of a running container, that is, no
  step blocks for ever (polls count their attempts, and the Jenkins job has a
  limit of six hours, after which it removes the container: a kill); and the operator who has decided to
  remove the workshop (`retired`) starts destroy again after a run that failed,
  as its message asks. `retired` is a choice made in `StartDestroy`, so
  behaviours in which nobody repeats destroy exist too. Faults are bounded, so
  they end.
* `ParallelJobs`: the shell keeps polling, and a foreign process that got a
  reused process id ends some day; without the second the wait can last for
  ever. No fairness of the jobs is assumed: if one never ends, neither the loop
  nor the batch returns.
* `CdfPlaybooks`: CDP carries out what it has begun; the views show it at last;
  and some run goes on, or is started by an operator who has decided what he
  wants for good (`goal`), as the messages of both playbooks ask. Three weak
  fairness conditions, none of them about one particular run.
* `EphemeralRunner`: a started process keeps running until it ends or is killed,
  and an operator who holds a handoff runs the driver again while something of
  it is left.

* `DsdgenParallel`: the operating system runs some process that can go on, and a
  killed one is started again. One weak fairness condition over all of them is
  enough, as the work is finite.
* `Dsqgen`, `DsdgenValues`: none; they are sequential and only safety is stated.

## The proofs

`HolPipeline_proofs` (580 obligations) assumes `ConfigsAssumption`,
`ServicesAssumption` and `MaxFaultsAssumption`, that is: the configfiles are
records of the four switches, `Silent` services are services, and the fault
bound is a natural number. For every such choice it proves `TypeCorrect`,
`NothingIsForgotten`, `DestroyedMeansGone`, `TerraformComesLast` and
`ProvisionedMeansComplete`.

The properties about outcomes are not inductive: that destroy ends with
everything gone depends on what each of its steps established and no later step
undid. `IInv` says it step by step:

* `NothingForgotten` itself is inductive with `TypeOK` and `KeycloakOnlyIfAsked`
  (without Keycloak in the configfile no Keycloak stack exists, so the skip in
  destroy loses nothing);
* `EnvHoldsServices`: services, Data Hubs and what they leave behind are only in
  an environment, so a destroyed environment has none;
* `KeycloakProgress`, `CdpProgress`: what is complete from which step of a
  provision run on; they carry `ProvisionedIsComplete` from the steps to the
  join, with `JobsOnlyForked` for what a job's status says;
* `DisableProgress`, `DestroyProgress`: what is gone from which step of a destroy
  run on; they carry `TerraformLast` and `DestroyedIsGone`.

`Apply`, `Leave`, `Remove` and the two outcomes of each destroy function have a
lemma each, and `NextIInv` has one step per action.

`ParallelJobs_proofs` (412 obligations) assumes `NAssumption` and
`MaxReuseAssumption` and proves for any number of jobs and any services:
`TypeCorrect`, `CollectedOnce`, `FailuresAreNamed`, `StatusIsTrue` and
`RefinesBatch`, the safety part of `ImplementsBatch`. The invariant adds `ForeignEnded` (a reused process id is the
one of an ended job), `FailureRecorded` (a failure is recorded exactly when a
failed job was collected) and `ReturnedLate`. The step from "N entries collected
without repetition" to "all jobs collected" is the pigeonhole lemma `AllReaped`.
`FailuresNamed` needs no induction over the sequence: it says that a numbering of
the failures exists, and each action that collects a job extends the numbering of
the state before, or leaves it.

`CdfPlaybooks_proofs` (557 obligations) assumes `BoundAssumption` and
`AttemptsAssumption` and proves `TypeCorrect` and `SuccessTruth` for any number of
runs at once. `SuccessIsTrue` speaks of one step, the last of a run, but what it
says of the service is not in that step: the run has only a view. `ServiceInv`
supplies it: `df_service_info` shows the service or a state from which one change
(`Steps`) leads to it, and there are deployments only in a service that is up or
being disabled. Each request and each thing that happens by itself has a lemma
that it keeps `ServiceInv`.

`EphemeralRunner_proofs` (510 obligations) assumes `TimeoutAssumption`,
`AttemptsAssumption` (the attempts at the security group outnumber the refusals a
dead instance's network interface can cause: the one number of the code that
AWS must keep) and `MaxFaultsAssumption`, and proves `TypeCorrect`,
`HandoffCompleteness` and `CleanUpIsComplete` for every timeout, set of lags and
number of faults. `MadeBefore` and `GoneBefore` say what launch has created, and
what a clean-up without a failed call has deleted, before each call;
`LaunchProgress` and `UndoProgress` assert them, `Accounted` that whatever exists
is recorded or was lost with its reply, and `AttemptsSuffice` bounds attempts
made plus refusals left. None of the four is implied by the properties, and
without any one of them the step of `DeleteSecurityGroup` or `EmitHandoff` fails.

`DsdgenParallel_proofs` (2050 obligations) assumes `TablesAssumption`,
`StreamsAssumption` (the shape of the constants: any tables, streams, budgets,
demands and counts) and `JobsAssumption` (nobody asks for more processes than
the smallest split table has rows). It proves `TypeCorrect`, `RowsWrittenOnce`,
`FilesAreKept`, `RowsFromSerialNumbers`, `ParallelImplementsSerial`,
`UndisturbedRunSucceeds` and `DoneIsComplete`. The argument has three layers: the shares of
`split_work` are disjoint intervals (arithmetic of quotient and remainder);
`FileInv` ties each row in `out` to the share of the process that wrote it, which
gives `RowsOnce`; and `PosInv` says that inside the loop of a table every
reproducible stream stands at the row times its budget, which gives
`RowsAreSerial` and with it, as every row is absent or serial, the refinement.
`CleanInv` relates `files` to `opened` while nobody was killed.
`DoneMeansComplete` is the converse of the first layer: `BuiltInv` says that a
process has written its whole share of each table it has passed, and of the one it
is in the rows before the next, and that nobody writes what was not asked for;
`SharesCover` that the shares together are all rows, each ending where the next
begins (`ShareEnds`), however the remainder of the division falls.

`DsdgenDates_proofs` (2590 obligations) has three parts. The first assumes
`DimensionJobsAssumption`: a job is for a table that keeps history, has a number of rows, and begins with the
first of six rows, which owes nothing to a row before it. It proves
`RevisionsKeepTheirItem` and `HistoriesAreSound` for every such job, scale, flags, id and
date. The invariant has three parts: the history is `setSCDKeys` of the indices from
the first on (`JobInv`); every field of `g_OldValues`, and of the last row, is that of
the last revision of its item that drew it, and so is the flag of a web page, which
decides whether its customer is overwritten (`RowInv`; `FieldDrawn`, `FlagDrawn`),
without which a retained field could be any; and a join was made of the finished
table (`JoinInv`). `FirstDraws` and `NextDraws` say how the last revision that drew a
field moves with a new row, `FieldOf` and `RowBuilt` that `changeSCD` follows it. Above it stand facts about the
arithmetic of `scd.c`: `NextRevision` (a row and the next, modulo six), `JoinFinds`
(`matchSCDSK` inverts it, with the cap at the end of the table) and `RowsOfId`.

Its second part assumes `OrderJobsAssumption`: the table of a job has a row count and its child is one of its processes. It proves
`ChunksFollowTheDays` for every such job, without a bound on the days. The last
rows of the days, `SerialEnds`, are a recursive function over all days, of which
the provers know only that it is some fixpoint if one exists. `SumsUpToExist` and
`SumsAreUnique` build one from its beginnings (`SerialEndsAreSums`), by
`SetInduction`, an induction over the naturals stated for a set and derived from
the least element of a set; it has no operator as a parameter, so it can be
cited. `DatesInv` says where skipping stands among the days, and that afterwards
the child is either in step with them (`OnSerialDays`, and no day ends with its
first row) or has gone past one day (`AfterDayBegun`).

Its third part assumes `StockAssumption` (there are items and warehouses, and the
base tables have row counts) and proves `UpdatesFillTheirDates` for any scale, any
numbers of items and warehouses and any dates at all. `dayRowcounts` is a
recursive function, so `DayRowcounts` first gives it a solution; then the rows
of each date are an interval (`DatedRows`) that begins where that of the date
before ends, and `getUpdateSlot` of a row is the date whose interval it lies in
(`SlotOf`). For an inventory each interval is one round of all items and
warehouses: `StockRow` gives the row of an item and a warehouse in a round, and
`StockRows`, `RowsAreStockRows` and `RoundsAreApart` say that the remainders and
quotients of `mk_s_inventory` and `mk_w_inventory` invert it.

`DsdgenPricing_proofs` (677 obligations) assumes nothing: `Tried`, the numbers a
run tries, is an arbitrary operator of which the actions take what lies in the
range of the code, so a theorem about any `Tried` is one about every draw. It
proves `EveryAmountAddsUp`. `PayInv` says that a sale is `set_pricing` of some
draws in range and a return that of the sale; the rest is arithmetic of rounded
products, one lemma for each amount: a percentage is a part (`PartOf`), what is
refunded is never more than what was paid (`RefundParts`), the sums (`SaleSum`,
`ReturnSum`).

`DsqgenDistcomp_proofs` (3224 obligations) has two parts: the streams of `dsqgen`
and the distributions that the tools read, which rest on the same induction. The
first assumes `StreamsAssumption`: there are
templates and versions, and the generator has a modulus. It proves
`EveryStreamIsComplete` for any templates, number of streams, versions and random
numbers. Each pass of `makePermutation` exchanges two entries, so that the order
stays one of all templates, whatever is drawn (`SwapPermutes`, `MakePermutation`);
`Steps` and `StepsStay` say of its recursion, and of that of the orders of the
streams, that they have a solution and that it goes on where it stopped.
`StreamsInv` counts: a version of a query is in `written` exactly if the loops
have passed it (`OnlyPassed`, `AllPassed`), and once (`NoneTwice`), at the place
that the order gives its template; as an order is a permutation, a template has one
place in it (`OnePlace`).

The second part assumes `DistAssumption`: a distribution has a type, the rows that
are tried are long enough for the widths, weights are not negative and texts have
a length. It proves `DistributionsAreRead`, that is `CompiledIsRead`, for any number of
distributions, rows and columns, any texts, any order of the statements, and any
folding and truncation of names. What is written is a concatenation of concatenations, so the
proof begins with sequences: `Holds(s, from, t)` says that `t` lies in `s` behind
its first `from` cells; `Join`, `Within` and `ReadPart` combine and read such parts,
and `FlattenedParts`, `PartHeld` and `EvenParts` say it of `FlattenSeq`, whose
recursion again needs a solution first. `EntryInv` is the invariant of an entry: the
weight sets are the weights of the rows, and the offsets of the value sets are where
the values lie among the strings (`OffsetIsPlace`; with `offsetOf_NoEnd` they are
not). `EntriesInv` adds that of two names that fold to the same the later was truncated:
whichever entry the index gives, another of its name is there for no other reason. `BodyHolds` and `FileHolds` are the layout that
`WriteIndex` chooses, `ReadsEntry` that `load_dist` inverts it; `LevelsOf` that the
levels that draw a row are an interval as long as its weight.

`HistorySpec`, `OrderSpec`, `UpdateSpec`, `PricingSpec` and `DistSpec` are the parts
by themselves; in `DsdgenValues` a step of a part is `HistoryNext`, `OrderNext`,
`UpdateNext`, `PricingNext` or `DistNext` with the other parts unchanged, and a part
that was not chosen starts in `DimensionIdle`, `OrderIdle`, `UpdateIdle`,
`PricingIdle` or `DistIdle`, which the specifications allow. So the theorems hold of the behaviours that
`dsdgen_values` checks.

Only model-checked:

* `RetiredIsDestroyed`, `Terminates`, `HandoffIsTornDown`, `GoalIsReached`,
  `EveryRowIsWritten` and the fairness part of `ImplementsBatch` and of
  `ImplementsSerial`: liveness and `ENABLED` are out of reach of the proof system.
* `OncePerQuery`, `ReferencesAgree` and `ValidatedRowIsSerial`: their modules use
  recursive operators, for what the code does by recursion (`EvalExpr`, the
  permutations of row picks).
* `CommandIsObeyed`: what it says is the result of folds of the community modules
  over a whole command line and over sets of tables, in which the order of a set is
  left to `CHOOSE`; the finite instance has every option and the parameter files.
* `CalendarRows`, `RowsFillTheTables`: TLC checks every row of `date_dim` and every
  table, so nothing is left to generalise.
* `UpdateDatesInZones`: it is what the formulas of `date.c` compute for single days
  of five years, which TLC evaluates and the provers, with seven nested divisions,
  do not.

## Divergences

Each is a run TLC must find violated; the property quotes what the repository
says.

1. `KeyPairDestroyed`. `destroy_hol_infra` destroys the key pair only when
   `keypair_generated.flag` exists, drops the status, and then removes the
   directory with the Terraform state. A run killed between `terraform apply`
   and the flag, or a failing destroy, ends in success with the key pair in EC2
   and nothing left that knows of it; its name then blocks the next generation.
2. `ProvisionedHasDns`. The Keycloak address is saved before the DNS record is
   created. If the record fails, every later provision run finds the address,
   skips Keycloak and never creates the record, and the report hands out a URL
   that does not resolve.
3. `RerunKeepsDelivered`. A failing `terraform apply` in a rerun on a delivered
   workshop is taken for a failed first attempt: the rollback destroys the
   environment and Keycloak.
4. `TeardownAlwaysRuns`. The driver reads its settings and checks credentials
   before its `try`: with one missing it exits and the runner stays.

5. `ChunksMatchSerial`. `main` calls `row_skip` for a table and its child, while
   `row_stop` also tops up the grandchild. The second process of a parallel
   `s_purchase` therefore builds its store returns from other numbers than the
   serial run.

Also met, without a run of their own. In the properties they are exceptions with
their place in the code, or they lie in code the models leave out.

* Options: a name that is no table reads behind the table of tables
  (`find_table`); a source table asked for without `-update` builds nothing and
  says nothing; `-table` with the lines or returns of an update set builds the
  next table; `-abreviation ALL` builds the first table only; `-filter` with all
  tables drops the returns; an abbreviated `-filt` is not cached; a flag followed
  by a stray word is cleared; `-scale 0` is stored as 0; a bare name in a
  parameter file takes what an earlier line left in the buffer.
* Validation: `getTdefsByNumber` under `-update -validate` indexes the source
  tables with a global number; permutations of three source tables are made from
  a stream that has moved.
* Printing and prices: `pr_s_catalog_returns` (`s_catalog_returns.c:150-151`) prints
  the warehouse and then the catalog page, `tpcds_source.sql:391-392` declares the
  catalog page and then the warehouse; files are loaded by position and both columns
  are `char(16)`, so a load goes through with the two exchanged; `w_store_sales.c:196` prints the coupon amount where
  `tpcds.sql` declares the discount; source returns are never priced, so their
  amounts are 0; `pricing.c:246-255` sets the precision of the wrong decimal;
  `s_promotion` prints 17 fields for 18 columns, and its end date with the null column
  of the start date (`s_promotion.c` prints `r->p_end_date_id` under
  `P_START_DATE_ID`), which has no effect as update sets have no nulls. Amounts of
  returns have more names than meanings: `DsdgenPrinting` names a return's amount
  column for the member of `ds_pricing_t` that the code prints there
  (`ext_sales_price`, `sales_price` or `net_paid`), since the DDL's `return_amt` does
  not say which; and `w_warehouse.c` has only one text, the name, for
  `wrhs_warehouse_desc` of the update set.
* Dates: `day_number` does not skip the leap day (`date.c:530-549`), so that in
  other years quarters and holidays come a day late; years that end in 00 are
  leap years; where a chunk begins with the last row of a day, `skipDays` gives
  that row the next day, of which no other row is built, so that all later rows
  of the chunk are dated as if the rows of that day had come before them; the delete files carry no child number; a pair of update dates
  may leave its zone; joins forget that a table's revisions begin some days early.
* CDF: Ansible evaluates the `when` of a looped `include_tasks` for every item
  before the first included file runs, so all attempts of `enable-cdf.yml`
  (391-399) are made after a success as well, and the last one alone decides,
  while the message (444-446) speaks of retries. The reset and the recovery (277-298) run even if the
  enable request is skipped. A service that one view shows as `DISABLING` and the
  other as `GOOD_HEALTH` is a success. A record in state `NOT_ENABLED` never leaves
  the list poll of `disable-cdf.yml` (437-456), so disable fails until an enable
  run has reset it; and a read that fails in that verification counts as absence.
* Distributions and queries: a name is truncated to 20 characters after it was
  compared with the others (`dcgram.c:131-158`), so two distributions may end up
  under one name and a search finds either; the first weight name of a distribution is not
  found (`DistNameIndex`); `rowcount(a,b)` checks the wrong index (`qgen.y`); the
  upper end of a `RANGE` modifier is off by one in `EvalRandomExpr` and
  `EvalDateExpr`; `web_join` (303-310) uses memory it has freed; a definition that copies a text
  definition shares its buffer, which is emptied at the turn of the copied one
  (`query_handler.c:266`), so that both print nothing: no template of the
  repository does so.
* Provisioner: `hol_cdp_assert_data_services_absent_before_destroy`
  (`hol-functions.sh:1800`, "one-shot gate before delete-environment / Terraform"),
  its alias, and `hol_aws_prepare_vpc_for_terraform_destroy` (2048) are never called:
  the pipeline relies on the playbooks for what the first would check, and on the
  operator for what the second would remove from the VPC.

## Not modelled

* Contents of configfiles, reports, probes and logs; formatting and colours.
* Terraform and Ansible themselves: a stack is applied, partly applied or
  destroyed, with the state file telling what exists. A state file that is lost
  or corrupt on its own is not considered.
* Two containers on one workshop at once; a configfile edited between runs.
* Quotas, which only end a run in `ValidateProvision`.
* `dsdgen`: a child table given to `-table`, `-filter`, `-validate` or database
  load in a *parallel* run; stdio buffers (a killed process leaves whole rows);
  names, addresses and texts; the numbers of update orders and `kNextInsertValue`;
  the rounding of `LogScale`'s floating point at scales other than the instance's.
* `dsqgen`: include files and the grammar, the limit keywords (one global
  expression), the modifiers of `list` and `range`.
* `distcomp`: include files and comments; `IntegrateDist`, `findDistValue`,
  `MatchDistWeight`.
* Generated code (`y.tab.c`, `tokenizer.c`), and the copies of the kit for Hive
  and Impala.
* Of the playbooks those of CDW, CDE and CAI; user sync, the retries of the CDP Terraform destroy, the
  Keycloak address that workshops on one agent share, and role assignment: in
  `HolPipeline` each is one step with all the outcomes its callers see. The
  hazards inside them are listed in `PROJECT.json`, without a property.
* Azure (the same pipeline), operators, wrappers, and the parts named under
  *The rest*. `PROJECT.json` gives the reason for each.

## Plan

In place, in the order they were built: `HolPipeline`, `ParallelBatch` and
`ParallelJobs`, `EphemeralRunner`; `DsdgenSerial` and `DsdgenParallel` with the
instance of the real tables; `Dsqgen`; the parts of `DsdgenValues`; `CdfService`
and `CdfPlaybooks`; and the eight modules of proofs.

What would add most from here, in order:

1. **UserSync**: `hol_cdp_sync_all_users_resilient` (`hol-functions.sh`
   1439-1697), conflicting syncs, waits that expire, the status of another operation.
2. **CdpTeardown**: `delete_environment_datahubs` (3010-3085) against Data Hubs
   created meanwhile, and `run_cdp_terraform_destroy` (2200-2241) with its
   attempts; both as refinements of the outcomes `HolPipeline` uses.
3. **KeycloakIp**: two workshops on one agent and the address file they share
   (`hol-functions.sh` 14-98).
4. In the kit: child tables and `-filter` in parallel runs, and the numbers of
   update orders.

Theorem left: that the outcomes `HolPipeline` gives a playbook are those of
`CdfPlaybooks`, as a refinement.

----------------------------- MODULE LocalBuild -----------------------------
(***************************************************************************)
(* The data-only parts of a local build (crates/build-runner/src/lib.rs):  *)
(* what the operator's settings and the build cache must be, what a        *)
(* generated crate may contain, and how the toolchain a manifest declares  *)
(* is held against the metadata the tools wrote into the Wasm.             *)
(*                                                                         *)
(* A file, a path or a version is a small value; a byte count is its class *)
(* ("fits" or "over").  A toolchain is a record of the three identities    *)
(* that the metadata states: [rsver, cliver, rssdkver], the CLI's with its *)
(* git revision.                                                           *)
(***************************************************************************)
EXTENDS FiniteSets, Integers, Sequences

CONSTANTS
    MaxTimeout,   \* MAX_CONFIGURABLE_TIMEOUT_SECS
    MaxJobs       \* MAX_CONFIGURABLE_JOBS

-----------------------------------------------------------------------------
\* BuildConfig::validated, the end of every construction path: a bound is
\* never zero and never absent.
validated(c) ==
    /\ c.launcher # "invalid"
    /\ c.timeout \in 1..MaxTimeout
    /\ c.jobs \in 1..MaxJobs
    /\ c.target_dir # "empty"
    /\ c.stellar_binary # "empty"

\* hosted_limits: the slots times the compile jobs fit the machine.
FitsMachine(slots, jobs, cpus) == slots > 0 /\ slots * jobs <= cpus

\* prepare_cache_dir: the entry at the cache path as symlink_metadata shows
\* it, and whether the build may use it.  An absent one is made with 0700.
CacheEntries ==
    [kind : {"absent", "directory", "symlink", "file"},
     owner : {"self", "other"},
     groupWritable : BOOLEAN,
     ownerMayUse : BOOLEAN]

prepare_cache_dir(e) ==
    \/ e.kind = "absent"
    \/ /\ e.kind = "directory"
       /\ e.owner = "self"
       /\ ~e.groupWritable
       /\ e.ownerMayUse

\* validate_relative_path: every component is an ordinary name.
validate_relative_path(p) == p.components \subseteq {"normal"} /\ p.components # {}

\* validate_generated: the files the build needs, the toolchain pin among them,
\* at ordinary paths and within the size bounds.
RequiredFiles == {"Cargo.toml", "Cargo.lock", "rust-toolchain.toml", "src/lib.rs", "src/contract.rs"}

validate_generated(crate) ==
    /\ crate.count = "fits"
    /\ RequiredFiles \subseteq {p.name : p \in crate.files}
    /\ \A p \in crate.files : validate_relative_path(p)
    /\ crate.size = "fits"

-----------------------------------------------------------------------------
(***************************************************************************)
(* The toolchain claim.  A Wasm is [empty, size, readable, meta], meta a   *)
(* sequence of the entries its metadata sections hold, in file order.      *)
(***************************************************************************)
MetaKeys == {"rsver", "cliver", "rssdkver"}

\* What a tool run writes: two sections, the SDK's and then the CLI's.
MetaOf(tools) ==
    <<[key |-> "rsver",    value |-> [tools.rsver EXCEPT !.revision = "none"]],
      [key |-> "rssdkver", value |-> tools.rssdkver],
      [key |-> "cliver",   value |-> tools.cliver]>>

\* wasm_contract_meta refuses a key that is stated twice, equal or not: the
\* map it returns has one value for a key whatever the order of the walk.
MetaReadable(wasm) ==
    /\ wasm.readable
    /\ \A i, j \in DOMAIN wasm.meta : wasm.meta[i].key = wasm.meta[j].key => i = j

wasm_contract_meta(wasm) ==
    [k \in {wasm.meta[i].key : i \in DOMAIN wasm.meta} |->
        (CHOOSE e \in {wasm.meta[i] : i \in DOMAIN wasm.meta} : e.key = k).value]

\* ToolchainClaim.revision_is_stated.
RevisionStated == {"cliver"}

\* Mutant: only the versions are compared.
ClaimAgrees_VersionOnly(k, declared, observed) == declared.version = observed.version

\* One claim of the manifest against the same fact in the Wasm; a missing
\* revision is never read as agreement.
ClaimAgrees(k, declared, observed) ==
    /\ declared.version # "unreadable"
    /\ declared.version = observed.version
    /\ k \in RevisionStated =>
         /\ declared.revision # "none"
         /\ declared.revision = observed.revision

\* reconcile_declared_toolchain
reconcile_declared_toolchain(declared, wasm) ==
    /\ MetaReadable(wasm)
    /\ \A k \in MetaKeys :
         /\ k \in DOMAIN wasm_contract_meta(wasm)
         /\ ClaimAgrees(k, declared[k], wasm_contract_meta(wasm)[k])

\* manifest_for: the order of the checks does not matter to a caller that
\* only learns whether there is a manifest.
manifest_for(declared, wasm) ==
    /\ ~wasm.empty
    /\ wasm.size = "fits"
    /\ reconcile_declared_toolchain(declared, wasm)
=============================================================================

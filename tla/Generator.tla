------------------------------ MODULE Generator ------------------------------
(***************************************************************************)
(* Runs of the generator's command line (cpp-generator/main.cpp, with      *)
(* plugin_introspect.cpp, lidlGenerateClientStubs and the umbrella of      *)
(* generator_lib.cpp) over one output directory: what each run checks, in  *)
(* which order it writes its files, what it leaves behind when a check or  *)
(* a write fails, and what the umbrella header then names.                 *)
(*                                                                         *)
(* A header that a run is given is read by HeaderScan, before the first    *)
(* run: what comes of it depends on the header alone.                      *)
(***************************************************************************)
EXTENDS HeaderScan, Sequences, Functions

CONSTANTS Modules,   \* what wrappers are generated for
          MaxRuns

ASSUME GeneratorAssumption == None \notin Nat   \* an exit code is a number

VARIABLES
    contract,    \* of the header: "none" until read, "events", "plain", "refused"
    run,         \* how many runs have begun
    mode, todo,  \* of the run: which it is, and its remaining steps
    exit,        \* its exit code, None while it runs
    refused,     \* it ended by a check
    skip,        \* skipWrappers
    origin,      \* --binding origin
    ifaces, deps,    \* ifaceSpecs and depSpecs
    members,     \* the dependencies that the umbrella has members for
    left,        \* the specs that a loop over wrappers has still to come to
    sdk,         \* the names in logos_sdk.h and in logos_sdk.cpp
    wrote, disk, \* files written by this run, files in the directory
    temp,        \* the synthetic metadata file is there
    spoiled      \* a run has failed

command == <<mode, skip, origin, ifaces, deps, members, left>>
files   == <<sdk, wrote, disk, temp>>
genVars == <<vars, contract, run, command, todo, exit, refused, files, spoiled>>

GenInit ==
    /\ ScanInit /\ contract = "none"
    /\ run = 0 /\ mode = "none" /\ todo = <<>> /\ exit = None /\ refused = FALSE
    /\ skip = FALSE /\ origin = FALSE
    /\ ifaces = <<>> /\ deps = <<>> /\ members = <<>> /\ left = <<>>
    /\ sdk = [h |-> {}, cpp |-> {}] /\ wrote = {} /\ disk = {} /\ temp = FALSE
    /\ spoiled = FALSE

(***************************************************************************)
(* The header.                                                             *)
(***************************************************************************)
ReadHeader ==
    /\ contract = "none"
    /\ Next
    /\ UNCHANGED <<contract, run, command, todo, exit, refused, files, spoiled>>

(* Bound: of what was read only the contract is kept.                      *)
Forget ==
    /\ place' = "file" /\ held' = None /\ open' = None
    /\ class' = "none" /\ section' = "default" /\ comment' = "no"
    /\ tDoc' = FALSE /\ tMethods' = {} /\ tEvents' = {} /\ tKnown' = {}
    /\ tFields' = [r \in Records |-> {}] /\ tUses' = [r \in Records |-> {}]
    /\ tBad' = {} /\ tHard' = {}
    /\ st' = "Looking" /\ depth' = 0 /\ doc' = FALSE /\ block' = FALSE
    /\ methods' = {} /\ events' = {} /\ apiBad' = FALSE
    /\ cur' = None /\ rdepth' = 0 /\ acc' = None
    /\ known' = {} /\ fields' = [r \in Records |-> {}] /\ uses' = [r \in Records |-> {}]
    /\ fieldBad' = {} /\ unreadable' = {} /\ verdict' = "none"

TakeContract ==
    /\ contract = "none" /\ verdict # "none"
    /\ contract' = IF verdict # "published" THEN "refused"
                   ELSE IF events # {} THEN "events" ELSE "plain"
    /\ Forget
    /\ UNCHANGED <<run, command, todo, exit, refused, files, spoiled>>

(***************************************************************************)
(* The steps of a run, each with the exit codes that can end it.           *)
(***************************************************************************)
Check(codes)   == [do |-> "check", codes |-> codes]
Scan(code)     == [do |-> "scan", codes |-> {code}]
Temp           == [do |-> "temp", codes |-> {9}]
Write(f, code) == [do |-> "write", file |-> f, codes |-> {code}]
Phase(p)       == [do |-> p, codes |-> {}]

WrapperH(n)   == <<n, "api.h">>
WrapperCpp(n) == <<n, "api.cpp">>
SdkH          == <<None, "logos_sdk.h">>
SdkCpp        == <<None, "logos_sdk.cpp">>
Other(k)      == <<None, k>>

(* A wrapper's two files, and the umbrella's.                              *)
Pair(n, h, cpp) == <<Write(WrapperH(n), h), Write(WrapperCpp(n), cpp)>>
Sdk(h, cpp)     == <<Write(SdkH, h), Write(SdkCpp, cpp)>>

(* parseInterfaceFile and generateInterfaceWrappers: a C++ header goes     *)
(* through the parser, with a metadata file made up for it.                *)
Wrapper(spec) ==
    (IF spec.form = "header" THEN <<Temp, Scan(9)>> ELSE <<>>)
    \o <<Check({9})>> \o Pair(spec.name, 9, 9)

Sidecar(ev) == <<Write(Other("types.h"), 11), Write(Other("module_impl.cpp"), 11)>>
               \o (IF ev THEN <<Write(Other("events_cdylib.cpp"), 11)>> ELSE <<>>)

\* Fault: the umbrella is written from what is there before the wrapper is.
ClientPlanEarly(n, only) ==
    <<Check(2 .. 5), Write(WrapperH(n), 6), Write(Other("metadata.json"), 8)>>
    \o (IF only THEN <<>> ELSE Sdk(9, 10))
    \o <<Write(WrapperCpp(n), 7)>>

\* Fault: the contract is validated once the wrapper is there.
ClientPlanLate(n, only) ==
    <<Check(2 .. 4)>> \o Pair(n, 6, 7) \o <<Check({5}), Write(Other("metadata.json"), 8)>>
    \o IF only THEN <<>> ELSE Sdk(9, 10)

ClientPlan(n, only) ==
    <<Check(2 .. 5)>> \o Pair(n, 6, 7) \o <<Write(Other("metadata.json"), 8)>>
    \o IF only THEN <<>> ELSE Sdk(9, 10)

NormalizePlan(toFile) ==
    <<Check({1, 4})>> \o IF toFile THEN <<Write(Other("lidl"), 5)>> ELSE <<>>

HeaderToLidlPlan == <<Check({1}), Scan(4), Write(Other("lidl"), 5)>>

FromHeaderPlan ==
    <<Check({1}), Scan(4), Check({1, 4, 6, 10})>>
    \o Sidecar(contract = "events") \o <<Write(Other("lidl"), 11)>>

CdylibPlan(ev) == <<Check({1, 4, 6, 10, 12})>> \o Sidecar(ev)

PluginPlan(n) == <<Check({1, 2, 3, 4, 7})>> \o Pair(n, 5, 6)

(* What a mode does; n is the module of the plugin or the contract, opt a  *)
(* choice of its own: --module-only, an output file, events.               *)
Plan(m, n, opt) ==
    CASE m = "umbrella"     -> <<Check(1 .. 4), Phase("interfaces")>>
      [] m = "normalize"    -> NormalizePlan(opt)
      [] m = "headerToLidl" -> HeaderToLidlPlan
      [] m = "fromHeader"   -> FromHeaderPlan
      [] m = "cdylib"       -> CdylibPlan(opt)
      [] m = "client"       -> ClientPlan(n, opt)
      [] m = "list"         -> <<Check(1 .. 4)>>
      [] m = "plugin"       -> PluginPlan(n)

Flags == {"umbrella", "general-only", "metadata", "normalize-lidl", "header-to-lidl",
          "from-header", "lidl", "backend"}

(* Bound: no command line has more than two of them.                       *)
CommandLines == {F \in SUBSET Flags : Cardinality(F) <= 2}

(* main(): the first mode that a flag asks for.                            *)
ModeOf(F) ==
    IF "umbrella" \in F \/ {"general-only", "metadata"} \subseteq F THEN "umbrella"
    ELSE IF "normalize-lidl" \in F THEN "normalize"
    ELSE IF "header-to-lidl" \in F THEN "headerToLidl"
    ELSE IF "from-header" \in F THEN "fromHeader"
    ELSE IF "lidl" \in F THEN IF "backend" \in F THEN "cdylib" ELSE "client"
    ELSE IF "metadata" \in F THEN "list" ELSE "plugin"

Idle == contract # "none" /\ (run = 0 \/ exit # None)

Main(F, n, opt) ==
    /\ Idle /\ run < MaxRuns
    /\ run' = run + 1
    /\ mode' = ModeOf(F)
    /\ todo' = Plan(mode', n, opt)
    /\ exit' = None /\ refused' = FALSE /\ wrote' = {}
    /\ spoiled' = (spoiled \/ exit \notin {None, 0})
    /\ \E lp, o \in BOOLEAN :
           /\ mode' # "umbrella" => ~lp /\ ~o
           /\ origin' = o
           /\ skip' = (o /\ ~lp)
    /\ ifaces' = <<>> /\ deps' = <<>> /\ members' = <<>> /\ left' = <<>>
    /\ UNCHANGED <<vars, contract, sdk, disk, temp>>

(***************************************************************************)
(* Steps.                                                                  *)
(***************************************************************************)
Doing(what) == exit = None /\ todo # <<>> /\ Head(todo).do = what
Done == exit' = IF Tail(todo) = <<>> THEN 0 ELSE None

Pass ==
    /\ Doing("check")
    /\ todo' = Tail(todo) /\ Done
    /\ UNCHANGED <<vars, contract, run, command, refused, files, spoiled>>

Fail ==
    /\ todo' = <<>>
    /\ exit' \in Head(todo).codes

Refuse ==
    /\ Doing("check")
    /\ Fail /\ refused' = TRUE
    /\ UNCHANGED <<vars, contract, run, command, files, spoiled>>

WriteTemp ==
    /\ Doing("temp")
    /\ \/ temp' = TRUE /\ todo' = Tail(todo) /\ UNCHANGED <<exit, refused>>
       \/ Fail /\ refused' = TRUE /\ UNCHANGED temp
    /\ UNCHANGED <<vars, contract, run, command, sdk, wrote, disk, spoiled>>

\* Fault: the made-up metadata file is removed after a parse that succeeds.
ScanHeaderKept ==
    /\ Doing("scan")
    /\ temp' = (temp /\ contract = "refused")
    /\ IF contract = "refused" THEN Fail /\ refused' = TRUE
       ELSE todo' = Tail(todo) /\ UNCHANGED <<exit, refused>>
    /\ UNCHANGED <<vars, contract, run, command, sdk, wrote, disk, spoiled>>

ScanHeader ==
    /\ Doing("scan")
    /\ temp' = FALSE
    /\ IF contract = "refused" THEN Fail /\ refused' = TRUE
       ELSE todo' = Tail(todo) /\ UNCHANGED <<exit, refused>>
    /\ UNCHANGED <<vars, contract, run, command, sdk, wrote, disk, spoiled>>

Present(f) == {n \in Modules : <<n, f>> \in disk}
NamesOf(specs) == [i \in DOMAIN specs |-> specs[i].name]
Elements(s) == {s[i] : i \in DOMAIN s}

(* The umbrella of a client stub takes what it finds in the directory, the *)
(* other one its members and interfaces.                                   *)
SdkNames(f) ==
    IF mode = "client" THEN Present(f) ELSE Elements(members) \cup Elements(NamesOf(ifaces))

WriteFile ==
    /\ Doing("write")
    /\ LET f == Head(todo).file IN
       /\ wrote' = wrote \cup {f}
       /\ disk' = disk \cup {f}
       /\ sdk' = IF f = SdkH THEN [sdk EXCEPT !.h = SdkNames("api.h")]
                 ELSE IF f = SdkCpp THEN [sdk EXCEPT !.cpp = SdkNames("api.cpp")] ELSE sdk
    /\ todo' = Tail(todo) /\ Done
    /\ UNCHANGED <<vars, contract, run, command, refused, temp, spoiled>>

WriteFails ==
    /\ Doing("write")
    /\ Fail
    /\ UNCHANGED <<vars, contract, run, command, refused, files, spoiled>>

(***************************************************************************)
(* Umbrella mode: runUmbrellaMode collects names as it goes.               *)
(***************************************************************************)
Specs == [name : Modules, form : {"lidl", "header"}]

(* --interface, or interface_dependencies of the metadata with a file of   *)
(* its own; a name that is there already is ignored.                       *)
Interface(spec) ==
    /\ Doing("interfaces")
    /\ spec.name \notin Elements(NamesOf(ifaces))
    /\ ifaces' = Append(ifaces, spec)
    /\ UNCHANGED <<vars, contract, run, mode, skip, origin, deps, members, left, todo, exit,
                   refused, files, spoiled>>

(* generateInterfaceWrappers goes through the specs, unless skipWrappers.  *)
Loop(specs, next) ==
    /\ left' = IF skip THEN <<>> ELSE specs
    /\ todo' = <<Phase("wrappers"), Phase(next)>>
    /\ UNCHANGED <<vars, contract, run, mode, skip, origin, ifaces, deps, members, exit,
                   refused, files, spoiled>>

NextWrapper ==
    /\ Doing("wrappers") /\ left # <<>>
    /\ todo' = Wrapper(Head(left)) \o todo
    /\ left' = Tail(left)
    /\ UNCHANGED <<vars, contract, run, mode, skip, origin, ifaces, deps, members, exit,
                   refused, files, spoiled>>

LoopEnds ==
    /\ Doing("wrappers") /\ left = <<>>
    /\ todo' = Tail(todo)
    /\ UNCHANGED <<vars, contract, run, command, exit, refused, files, spoiled>>

GenerateInterfaces == Doing("interfaces") /\ Loop(ifaces, "deps")

\* Fault: a dependency is compared with other dependencies only.
DependencyUnchecked(spec) ==
    /\ Doing("deps")
    /\ spec.name \notin Elements(NamesOf(deps))
    /\ deps' = Append(deps, spec)
    /\ UNCHANGED <<vars, contract, run, mode, skip, origin, ifaces, members, left, todo, exit,
                   refused, files, spoiled>>

(* --dep: ignored where the name is an interface's or another's.           *)
Dependency(spec) ==
    /\ Doing("deps")
    /\ spec.name \notin Elements(NamesOf(ifaces)) \cup Elements(NamesOf(deps))
    /\ deps' = Append(deps, spec)
    /\ UNCHANGED <<vars, contract, run, mode, skip, origin, ifaces, members, left, todo, exit,
                   refused, files, spoiled>>

GenerateDependencies == Doing("deps") /\ Loop(deps, "members")

(* umbrellaDependencyEntries: the flags, or without any the metadata's     *)
(* dependencies and optional_dependencies as they stand.                   *)
Listed == UNION {[1 .. k -> Modules] : k \in 0 .. 2}

\* Fault: the members are the metadata's whatever the flags say.
TakeMembersListed ==
    /\ Doing("members")
    /\ members' \in Listed
    /\ todo' = Sdk(7, 8)
    /\ UNCHANGED <<vars, contract, run, mode, skip, origin, ifaces, deps, left, exit, refused,
                   files, spoiled>>

TakeMembers ==
    /\ Doing("members")
    /\ members' \in IF deps # <<>> THEN {NamesOf(deps)} ELSE Listed
    /\ todo' = Sdk(7, 8)
    /\ UNCHANGED <<vars, contract, run, mode, skip, origin, ifaces, deps, left, exit, refused,
                   files, spoiled>>

(* An origin to be baked in, and metadata that declares no name.           *)
NoOrigin ==
    /\ Doing("members") /\ origin
    /\ exit' = 6 /\ todo' = <<>> /\ refused' = TRUE
    /\ UNCHANGED <<vars, contract, run, command, files, spoiled>>

Umbrella ==
    \/ \E spec \in Specs : Interface(spec) \/ Dependency(spec)
    \/ GenerateInterfaces \/ GenerateDependencies \/ NextWrapper \/ LoopEnds
    \/ TakeMembers \/ NoOrigin

GenNext ==
    \/ ReadHeader \/ TakeContract
    \/ \E F \in CommandLines, n \in Modules, opt \in BOOLEAN : Main(F, n, opt)
    \/ Pass \/ Refuse \/ WriteTemp \/ ScanHeader \/ WriteFile \/ WriteFails
    \/ Umbrella

GenSpec == GenInit /\ [][GenNext]_genVars

(***************************************************************************)
(* Properties.                                                             *)
(***************************************************************************)
Succeeded(m) == exit = 0 /\ mode = m

(* A run that succeeds leaves an umbrella over wrappers that it has itself *)
(* written, header and source: none is missing, none is what another run   *)
(* left there.  (With --binding origin, or names from the metadata alone,  *)
(* the wrappers are another tool's.)                                       *)
UmbrellaIsWhole ==
    Succeeded("umbrella") /\ ~skip /\ (deps # <<>> \/ members = <<>>) =>
        /\ sdk.h = sdk.cpp
        /\ \A n \in sdk.h : {WrapperH(n), WrapperCpp(n)} \subseteq wrote

(* Where --dep names the dependencies, the umbrella declares each name     *)
(* once, as a member or as an interface's factory.                         *)
OneDeclarationPerName ==
    Succeeded("umbrella") /\ deps # <<>> => IsInjective(members \o NamesOf(ifaces))

(* A run that is refused leaves whole wrappers or nothing: only umbrella   *)
(* mode checks one definition after it has written another's wrapper.      *)
RefusalLeavesNoHalf ==
    refused =>
        /\ mode # "umbrella" => wrote = {}
        /\ \A n \in Modules : WrapperH(n) \in wrote <=> WrapperCpp(n) \in wrote

(* A client stub's umbrella includes what the directory has.  If no run    *)
(* before it failed, every class that it names comes with its source.      *)
GlobbedPairsMatch ==
    Succeeded("client") /\ ~spoiled /\ SdkH \in wrote => sdk.h = sdk.cpp

(* The metadata made up for an interface's header outlives no run.         *)
NoTemporaryLeft == exit # None => ~temp

(* A run leaves nothing behind by halves: no wrapper without its source    *)
(* after a refusal, no made-up metadata after any end.                     *)
LeavesNoDebris == RefusalLeavesNoHalf /\ NoTemporaryLeft
=============================================================================

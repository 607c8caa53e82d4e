------------------------------ MODULE NativeBuild ------------------------------
(***************************************************************************)
(* The optional native libraries: the build tools that leave a library and *)
(* its metadata in _native/, and the processes that check both and load.   *)
(* Six libraries, two protocols.  The gather family (build_moe_gather.py   *)
(* and its copies) hashes the sources before the compiler runs and again   *)
(* after, records the library's own hash and renames both files into       *)
(* place; the others (build_cuda.py, build_cutlass.py,                     *)
(* build_cutlass_moe.py) rename the library, hash the sources then, and    *)
(* write the metadata in place.  Each library is one of a behaviour; a     *)
(* version stands for the bytes of a source, a library for its own.        *)
(***************************************************************************)
EXTENDS Integers

CONSTANTS
  Builders, Processes,  \* build tools and Python processes
  Archs,                \* architectures of the devices
  Kinds,                \* the libraries that are run
  Disturbed,            \* those whose tools meet other tools and edits
  MaxVersion, MaxBuilds \* bounds

AllKinds == {"cuda", "cutlass", "cutlass_moe", "moe_gather", "moe_fused", "moe_interleaved"}

ASSUME BuildAssumption ==
  Kinds \subseteq AllKinds /\ Disturbed \subseteq Kinds /\ {MaxVersion, MaxBuilds} \subseteq Nat

VARIABLES
  kind,               \* the library
  source,             \* versions of the files under csrc/sm12x and csrc/sm110
  library, metadata,  \* the two files
  newest, builds,     \* highest version so far; builds begun
  last,               \* ghost: how far the last build to begin has come
  builder,            \* per tool: step, what it compiles for, made and hashed
  loader,             \* per process: step, arch, and what it has checked
  cache               \* _load_library's lru_cache: per process and arch

build_vars == <<kind, source, library, metadata, newest, builds, last, builder, loader, cache>>
files == <<kind, source, newest, library, metadata>>

-----------------------------------------------------------------------------
(* The six libraries.                                                      *)

\* These record the library's hash in the metadata.
Hashed == kind \in {"moe_gather", "moe_fused", "moe_interleaved"}
\* The MoE libraries are built for, and loaded on, Thor only.
Targets == IF kind \in {"cuda", "cutlass"} THEN Archs ELSE Archs \cap {"sm_110"}

\* What the translation unit includes: Thor's own sources include GB10's.
CudaSources(arch) == IF arch = "sm_110" THEN {"sm110", "sm12x"} ELSE {"sm12x"}
CutlassSources(arch) == IF arch = "sm_110" THEN {"sm110", "sm12x"} ELSE {"sm12x"}
MoeSources == {"sm110"}
SourcesOf(arch) ==
  CASE kind = "cuda" -> CudaSources(arch) [] kind = "cutlass" -> CutlassSources(arch)
    [] OTHER -> MoeSources
Parts == UNION {SourcesOf(a) : a \in Targets}
HashOf(arch) == [part \in SourcesOf(arch) |-> source[part]]

-----------------------------------------------------------------------------
(* The files.                                                              *)

NoHash == [part \in {} |-> 0]
Nothing == [version |-> NoHash, arch |-> "none", build |-> 0]
NoFile == [state |-> "absent", version |-> NoHash, arch |-> "none", bytes |-> Nothing]
Truncated == [NoFile EXCEPT !.state = "invalid"]
Metadata(version, arch, bytes) ==
  [state |-> "valid", version |-> version, arch |-> arch, bytes |-> bytes]

IdleBuilder == [step |-> "idle", arch |-> "none", hashes |-> NoHash, made |-> Nothing]
IdleLoader == [step |-> "idle", arch |-> "none", seen |-> NoFile, bytes |-> Nothing]
\* A loaded library with what the checks compared before it.
Unloaded == [library |-> Nothing, compared |-> NoHash, bytes |-> Nothing]

BuildInit ==
  /\ kind \in Kinds /\ source = [part \in Parts |-> 1] /\ library = Nothing /\ metadata = NoFile
  /\ newest = 1 /\ builds = 0 /\ last = "none"
  /\ builder = [b \in Builders |-> IdleBuilder]
  /\ loader = [p \in Processes |-> IdleLoader]
  /\ cache = [p \in Processes |-> [a \in Targets |-> Unloaded]]

Quiet == \A b \in Builders : builder[b].step = "idle"

\* Someone edits the sources.  While a tool runs the contents are new; going
\* back to an older version happens between builds.
Edit(part) ==
  /\ kind \in Disturbed \/ Quiet
  /\ \/ newest < MaxVersion /\ newest' = newest + 1 /\ source' = [source EXCEPT ![part] = newest']
     \/ /\ Quiet /\ UNCHANGED newest
        /\ \E old \in 1 .. newest : old # source[part] /\ source' = [source EXCEPT ![part] = old]
  /\ UNCHANGED <<kind, library, metadata, builds, last, builder, loader, cache>>

-----------------------------------------------------------------------------
(* A build.                                                                *)

AtStep(b, step) == builder[b].step = step
Goes(b, step) == builder' = [builder EXCEPT ![b].step = step]

BeginBuild(b, arch) ==
  /\ AtStep(b, "idle") /\ builds < MaxBuilds
  /\ kind \in Disturbed \/ Quiet
  /\ builds' = builds + 1 /\ last' = "begun"
  /\ builder' = [builder EXCEPT ![b] =
       [step |-> "compile", arch |-> arch, hashes |-> HashOf(arch),
        made |-> [version |-> NoHash, arch |-> arch, build |-> builds']]]
  /\ UNCHANGED <<files, loader, cache>>

\* The compiler's reading of the sources.
Compile(b) ==
  /\ AtStep(b, "compile")
  /\ builder' = [builder EXCEPT
       ![b].step = IF Hashed THEN "recheck" ELSE "replace",
       ![b].made.version = HashOf(builder[b].arch)]
  /\ UNCHANGED <<files, builds, last, loader, cache>>

\* Only the gather family looks at the sources again before installing.
SkipRecheck(b) == TRUE
SameSources(b) == HashOf(builder[b].arch) = builder[b].hashes
Recheck(b) ==
  /\ AtStep(b, "recheck")
  /\ IF SameSources(b) THEN Goes(b, "replace")
     ELSE builder' = [builder EXCEPT ![b] = IdleBuilder]
  /\ UNCHANGED <<files, builds, last, loader, cache>>

FirstKept(b) == IF library = Nothing THEN builder[b].made ELSE library
Installed(b) == builder[b].made
ReplaceLibrary(b) ==
  /\ AtStep(b, "replace")
  /\ library' = Installed(b)
  /\ Goes(b, IF Hashed THEN "rename" ELSE "hash")
  /\ UNCHANGED <<kind, source, newest, metadata, builds, last, loader, cache>>

RenameMetadata(b) ==
  /\ AtStep(b, "rename")
  /\ metadata' = Metadata(builder[b].hashes, builder[b].arch, builder[b].made)
  /\ builder' = [builder EXCEPT ![b] = IdleBuilder]
  /\ last' = "finished"
  /\ UNCHANGED <<kind, source, newest, library, builds, loader, cache>>

HashSources(b) ==
  /\ AtStep(b, "hash")
  /\ builder' = [builder EXCEPT ![b].step = "open", ![b].hashes = HashOf(builder[b].arch)]
  /\ UNCHANGED <<files, builds, last, loader, cache>>

\* write_text opens, and so truncates, before it writes.
OpenMetadata(b) ==
  /\ AtStep(b, "open")
  /\ metadata' = Truncated
  /\ Goes(b, "write")
  /\ UNCHANGED <<kind, source, newest, library, builds, last, loader, cache>>

WriteMetadata(b) ==
  /\ AtStep(b, "write")
  /\ metadata' = Metadata(builder[b].hashes, builder[b].arch, Nothing)
  /\ builder' = [builder EXCEPT ![b] = IdleBuilder]
  /\ last' = "finished"
  /\ UNCHANGED <<kind, source, newest, library, builds, loader, cache>>

\* The compiler fails, or the tool is killed between two steps.
Abandon(b) ==
  /\ ~AtStep(b, "idle")
  /\ builder' = [builder EXCEPT ![b] = IdleBuilder]
  /\ UNCHANGED <<files, builds, last, loader, cache>>

-----------------------------------------------------------------------------
(* A load.  Only a success is cached.                                      *)

Reads(p, step) == loader[p].step = step
Rejected(p) == loader' = [loader EXCEPT ![p] = IdleLoader]

CallLoader(p, arch) ==
  /\ Reads(p, "idle") /\ cache[p][arch] = Unloaded
  /\ library # Nothing
  /\ loader' = [loader EXCEPT ![p] = [IdleLoader EXCEPT !.step = "metadata", !.arch = arch]]
  /\ UNCHANGED <<files, builds, last, builder, cache>>

ReadMetadata(p) ==
  /\ Reads(p, "metadata")
  /\ IF metadata.state = "valid" /\ metadata.arch = loader[p].arch
       THEN loader' = [loader EXCEPT ![p].step = "sources", ![p].seen = metadata]
       ELSE Rejected(p)
  /\ UNCHANGED <<files, builds, last, builder, cache>>

SourcesMatch(p) == loader[p].seen.version = HashOf(loader[p].arch)
CompareSources(p) ==
  /\ Reads(p, "sources")
  /\ IF SourcesMatch(p)
       THEN loader' = [loader EXCEPT ![p].step = IF Hashed THEN "bytes" ELSE "load"]
       ELSE Rejected(p)
  /\ UNCHANGED <<files, builds, last, builder, cache>>

AnyBytes(p) == TRUE
BytesMatch(p) == loader[p].seen.bytes = library
CompareBytes(p) ==
  /\ Reads(p, "bytes")
  /\ IF BytesMatch(p)
       THEN loader' = [loader EXCEPT ![p].step = "load", ![p].bytes = library]
       ELSE Rejected(p)
  /\ UNCHANGED <<files, builds, last, builder, cache>>

\* ctypes.CDLL opens the path anew.
Load(p) ==
  /\ Reads(p, "load")
  /\ cache' = [cache EXCEPT ![p][loader[p].arch] =
       [library |-> library, compared |-> loader[p].seen.version, bytes |-> loader[p].bytes]]
  /\ Rejected(p)
  /\ UNCHANGED <<files, builds, last, builder>>

BuildNext ==
  \/ \E part \in Parts : Edit(part)
  \/ \E b \in Builders :
       \/ \E arch \in Targets : BeginBuild(b, arch)
       \/ Compile(b) \/ Recheck(b) \/ ReplaceLibrary(b) \/ RenameMetadata(b)
       \/ HashSources(b) \/ OpenMetadata(b) \/ WriteMetadata(b) \/ Abandon(b)
  \/ \E p \in Processes :
       \/ \E arch \in Targets : CallLoader(p, arch)
       \/ ReadMetadata(p) \/ CompareSources(p) \/ CompareBytes(p) \/ Load(p)

BuildSpec == BuildInit /\ [][BuildNext]_build_vars

-----------------------------------------------------------------------------
(* Correctness.                                                            *)

CacheEntry(at) == cache[at[1]][at[2]]
Loaded == {at \in Processes \X Targets : CacheEntry(at) # Unloaded}

\* With the library's hash in the metadata, the bytes a process accepted were
\* compiled for its device from exactly the sources it compared, whatever
\* tools ran at the same time, were killed, or saw the sources change.
AcceptedBytesMatch ==
  Hashed => \A at \in Loaded :
    /\ CacheEntry(at).bytes.version = CacheEntry(at).compared
    /\ CacheEntry(at).bytes.arch = at[2]

\* What is_available says: the files it accepts are a build of the current
\* sources for the device.  A tool killed half-way, or sources that change
\* under the compiler, leave nothing that passes for one.
Acceptable(a) ==
  /\ metadata.state = "valid" /\ metadata.arch = a /\ metadata.version = HashOf(a)
  /\ Hashed => metadata.bytes = library
PairConsistent ==
  \A a \in Targets : Acceptable(a) => library.version = HashOf(a) /\ library.arch = a

\* The gather family keeps that promise with several tools at work, killed at
\* any step and with sources edited under the compiler.
HashedPairConsistent == Hashed => PairConsistent

\* The other tools' repair: whatever a killed build left behind, a build that
\* runs to its end leaves a pair that is accepted only for what it is.
RebuildRepairs == ~Hashed /\ last = "finished" => PairConsistent
=============================================================================

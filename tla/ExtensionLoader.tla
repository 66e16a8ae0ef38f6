--------------------------- MODULE ExtensionLoader ---------------------------
(***************************************************************************)
(* agentcook_core/skill_loader.py and plugin_loader.py: skills and plugins *)
(* read from disk into registries.                                         *)
(*                                                                         *)
(* All of it is synchronous, so an operation is one step; between two      *)
(* steps the files may change.  Paths are numbered in sorted order; those  *)
(* in HiddenPaths have a name that starts with `_' or `.'.  A file is a    *)
(* skill with a name and a body, or malformed (SkillLoadError), or         *)
(* unreadable (an exception that is no SkillLoadError), or not there.      *)
(***************************************************************************)
EXTENDS Integers, Sequences, FiniteSets, SequencesExt

CONSTANTS
    Paths, HiddenPaths,
    SkillNames, Bodies,
    Bundles,        \* plugin directory -> [name, manifest, agents, connectors]; its
                    \* manifest is "ok" or "bad", the others "ok", "invalid" or "garbled"
    MaxEdits, MaxScans  \* bounds: changes of a file, calls of register_directory

ASSUME LoaderAssumption ==
    /\ Paths = 1..Cardinality(Paths) /\ IsFiniteSet(Paths)
    /\ HiddenPaths \subseteq Paths /\ MaxEdits \in Nat /\ MaxScans \in Nat

VARIABLES
    disk,           \* path -> file
    skills,         \* SkillRegistry._entries, in insertion order
    plugins,        \* PluginRegistry._entries, in insertion order
    ended,          \* how the last register_directory ended
    edits, scans    \* counters behind the bounds

loaderVars == <<disk, skills, plugins, ended, edits, scans>>

NoBody == "none"
Skill(n, b) == [kind |-> "skill", name |-> n, body |-> b]
NoSkill(kind) == [kind |-> kind, name |-> NoBody, body |-> NoBody]
Files == {Skill(n, b) : n \in SkillNames, b \in Bodies}
         \cup {NoSkill(k) : k \in {"absent", "malformed", "unreadable"}}

\* SkillEntry and PluginEntry.
Entries == [name : SkillNames, path : Paths, body : Bodies \cup {NoBody}]
PluginEntries == [dir : DOMAIN Bundles, skills : Seq(Entries), connectors : BOOLEAN, active : BOOLEAN]

LoaderInit ==
    /\ disk \in [Paths -> {NoSkill("absent")} \cup {Skill(n, b) : n \in SkillNames, b \in Bodies}]
    /\ skills = <<>> /\ plugins = <<>> /\ ended = "none" /\ edits = 0 /\ scans = 0

Edit(p, f) ==
    /\ f # disk[p] /\ edits < MaxEdits /\ edits' = edits + 1
    /\ disk' = [disk EXCEPT ![p] = f]
    /\ UNCHANGED <<skills, plugins, ended, scans>>

-----------------------------------------------------------------------------
(* Skills *)

Names(entries) == {entries[i].name : i \in DOMAIN entries}
LoadedFrom(p) == [name |-> disk[p].name, path |-> p, body |-> NoBody]

\* rglob yields the visible files that are there, in the order of their numbers.
Visible == {p \in Paths \ HiddenPaths : disk[p].kind # "absent"}

\* Slip: a name that is taken is skipped, and the scan goes on.
ScanStepSkipping(acc, p) ==
    CASE acc.ended # "returned" \/ disk[p].kind = "malformed" -> acc
      [] acc.ended = "returned" /\ disk[p].kind = "unreadable" -> [acc EXCEPT !.ended = "raised"]
      [] acc.ended = "returned" /\ disk[p].kind = "skill" ->
           IF disk[p].name \in Names(acc.entries) THEN acc
           ELSE [acc EXCEPT !.entries = Append(@, LoadedFrom(p))]

\* One file of register_directory: load_skill_file, then register.
ScanStep(acc, p) ==
    CASE acc.ended # "returned" \/ disk[p].kind = "malformed" -> acc
      [] acc.ended = "returned" /\ disk[p].kind = "unreadable" -> [acc EXCEPT !.ended = "raised"]
      [] acc.ended = "returned" /\ disk[p].kind = "skill" ->
           IF disk[p].name \in Names(acc.entries) THEN [acc EXCEPT !.ended = "conflict"]
           ELSE [acc EXCEPT !.entries = Append(@, LoadedFrom(p))]

\* The scan after the paths up to n.
ScannedTo ==
    LET to[n \in 0..Cardinality(Paths)] ==
            IF n = 0 THEN [entries |-> skills, ended |-> "returned"]
            ELSE IF n \in Visible THEN ScanStep(to[n - 1], n) ELSE to[n - 1]
    IN  to

RegisterDirectory ==
    LET scan == ScannedTo[Cardinality(Paths)] IN
    /\ scans < MaxScans /\ scans' = scans + 1
    /\ skills' = scan.entries /\ ended' = scan.ended
    /\ UNCHANGED <<disk, plugins, edits>>

\* load_skill_file and register, for one file; either may raise.
RegisterSkill(p) ==
    /\ disk[p].kind = "skill" /\ disk[p].name \notin Names(skills)
    /\ skills' = Append(skills, LoadedFrom(p))
    /\ UNCHANGED <<disk, plugins, ended, edits, scans>>

\* SkillEntry.load parses the file as it is now, once.
Load(i) ==
    LET e == skills[i]  f == disk[e.path] IN
    /\ e.body = NoBody /\ f.kind = "skill"
    /\ skills' = [skills EXCEPT ![i] = [e EXCEPT !.body = f.body]]
    /\ UNCHANGED <<disk, plugins, ended, edits, scans>>

ClearSkills ==
    /\ skills # <<>> /\ skills' = <<>>
    /\ UNCHANGED <<disk, plugins, ended, edits, scans>>

-----------------------------------------------------------------------------
(* Plugins; all of them see the directory of skills as their own *)

\* parse_manifest, _load_agents and _load_skills raise; _load_connectors takes
\* invalid JSON for no connectors.
Loadable(d) ==
    /\ Bundles[d].manifest = "ok"
    /\ Bundles[d].agents # "garbled" /\ Bundles[d].connectors # "garbled"
    /\ \A p \in Visible : disk[p].kind # "unreadable"

\* _load_skills: an entry for each skill among the files.
SkillsFound ==
    LET to[n \in 0..Cardinality(Paths)] ==
            IF n = 0 THEN <<>>
            ELSE IF n \in Visible /\ disk[n].kind = "skill" THEN Append(to[n - 1], LoadedFrom(n))
            ELSE to[n - 1]
    IN  to[Cardinality(Paths)]

Loaded(d) ==
    [dir |-> d, skills |-> SkillsFound, connectors |-> Bundles[d].connectors = "ok", active |-> FALSE]

RegisterPlugin(d) ==
    /\ Loadable(d) /\ \A i \in DOMAIN plugins : Bundles[plugins[i].dir].name # Bundles[d].name
    /\ plugins' = Append(plugins, Loaded(d))
    /\ UNCHANGED <<disk, skills, ended, edits, scans>>

SetActive(i, b) ==
    /\ plugins[i].active # b
    /\ plugins' = [plugins EXCEPT ![i] = [@ EXCEPT !.active = b]]
    /\ UNCHANGED <<disk, skills, ended, edits, scans>>

ClearPlugins ==
    /\ plugins # <<>> /\ plugins' = <<>>
    /\ UNCHANGED <<disk, skills, ended, edits, scans>>

LoaderNext ==
    \/ \E p \in Paths : RegisterSkill(p) \/ \E f \in Files : Edit(p, f)
    \/ RegisterDirectory \/ ClearSkills \/ ClearPlugins
    \/ \E i \in DOMAIN skills : Load(i)
    \/ \E d \in DOMAIN Bundles : RegisterPlugin(d)
    \/ \E i \in DOMAIN plugins, b \in BOOLEAN : SetActive(i, b)

LoaderSpec == LoaderInit /\ [][LoaderNext]_loaderVars

-----------------------------------------------------------------------------
LoaderTypeOK ==
    /\ disk \in [Paths -> Files] /\ skills \in Seq(Entries) /\ plugins \in Seq(PluginEntries)
    /\ ended \in {"none", "returned", "conflict", "raised"}
    /\ edits \in 0..MaxEdits /\ scans \in 0..MaxScans

\* What a scan would add: the skills before the first file, in the order of paths,
\* that cannot be read or whose name is taken by an entry or by a file before it.
Skilled == {p \in Visible : disk[p].kind = "skill"}

Stops ==
    {p \in Visible : \/ disk[p].kind = "unreadable"
                     \/ p \in Skilled /\ \/ disk[p].name \in Names(skills)
                                         \/ \E q \in Skilled : q < p /\ disk[q].name = disk[p].name}

WouldAdd == {p \in Skilled : \A s \in Stops : p < s}

Added(before, after) == {after[i].path : i \in (Len(before) + 1)..Len(after)}

\* register_directory is all or a prefix: a directory that cannot be registered
\* whole leaves the skills before the trouble registered, those after it not, and
\* reports it; no entry is ever replaced, and no name registered twice.
ScanKeepsPrefix ==
    [][scans' # scans =>
         /\ IsPrefix(skills, skills')
         /\ Added(skills, skills') = WouldAdd
         /\ Cardinality(Names(skills')) = Len(skills')
         /\ (ended' = "returned") <=>
              WouldAdd = Skilled /\ \A p \in Visible : disk[p].kind # "unreadable"]_loaderVars
=============================================================================

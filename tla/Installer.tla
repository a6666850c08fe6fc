------------------------------- MODULE Installer -------------------------------
(***************************************************************************)
(* codegraph install / uninstall: the configuration files of eight agents  *)
(* (installer/index.ts, installer/targets/*.ts) and the git hooks that     *)
(* stand in for a disabled watcher (sync/git-hooks.ts).  One step is one   *)
(* agent of a run; a run may be cut short between two agents.              *)
(* A file is [exists, ok, doc, lines]: a JSON document that parses (ok) is *)
(* the function doc from its keys, any other text is its sequence of       *)
(* lines.  backups holds the copies made of documents that do not parse.   *)
(***************************************************************************)
EXTENDS Naturals, Sequences, FiniteSets, SequencesExt, TLC

CONSTANTS Disks,      \* the files a user may have before the first run
          MaxRuns     \* bound: runs of the two commands

VARIABLES disk,       \* [files, dirs, backups]
          before,     \* the files as the user had them
          run,        \* [op, loc, allow, left, done]: agents still to do, agents done
          runs

installerVars == <<disk, before, run, runs>>

None == [x \in {} |-> x]
Absent == [exists |-> FALSE, ok |-> FALSE, doc |-> None, lines |-> <<>>]
Json(doc) == [exists |-> TRUE, ok |-> TRUE, doc |-> doc, lines |-> <<>>]
Text(lines) == [exists |-> TRUE, ok |-> FALSE, doc |-> None, lines |-> lines]
Field(doc, k, default) == IF k \in DOMAIN doc THEN doc[k] ELSE default
With(doc, k, v) == (k :> v) @@ doc
Without(doc, k) == Restrict(doc, DOMAIN doc \ {k})
WithoutEmpty(doc, k) == IF k \in DOMAIN doc /\ DOMAIN doc[k] = {} THEN Without(doc, k) ELSE doc

Agents == <<"claude", "cursor", "codex", "opencode", "hermes", "gemini", "antigravity", "kiro">>
SupportsLocation(t, loc) == loc = "global" \/ t \notin {"codex", "hermes", "antigravity"}

-----------------------------------------------------------------------------
(* Paths: ~ is the home directory, . the project.                          *)
In(loc, path) == IF loc = "global" THEN "~/" \o path ELSE "./" \o path
DirsOf(file) ==
    CASE file \in {"~/.claude/settings.json", "~/.claude/CLAUDE.md"} -> {"~/.claude"}
      [] file \in {"./.claude/settings.json", "./.claude/CLAUDE.md"} -> {"./.claude"}
      [] file \in {"~/.codex/config.toml", "~/.codex/AGENTS.md"} -> {"~/.codex"}
      [] file = "~/.cursor/mcp.json" -> {"~/.cursor"}
      [] file \in {"./.cursor/mcp.json", "./.cursor/rules/codegraph.mdc"} -> {"./.cursor"}
      [] file \in {"~/.config/opencode/opencode.jsonc", "~/.config/opencode/opencode.json", "~/.config/opencode/AGENTS.md"} -> {"~/.config/opencode"}
      [] file = "~/.hermes/config.yaml" -> {"~/.hermes"}
      [] file \in {"~/.gemini/settings.json", "~/.gemini/GEMINI.md"} -> {"~/.gemini"}
      [] file \in {"./.gemini/settings.json", "./.gemini/GEMINI.md"} -> {"./.gemini"}
      [] file = "~/.gemini/config/mcp_config.json" -> {"~/.gemini", "~/.gemini/config"}
      [] file = "~/.gemini/antigravity/mcp_config.json" -> {"~/.gemini", "~/.gemini/antigravity"}
      [] file \in {"~/.kiro/settings/mcp.json", "~/.kiro/steering/codegraph.md"} -> {"~/.kiro"}
      [] file \in {"./.git/hooks/post-commit", "./.git/hooks/post-merge"} -> {"./.git"}
      [] file \in {"./.kiro/settings/mcp.json", "./.kiro/steering/codegraph.md"} -> {"./.kiro"}
      [] OTHER -> {}

Exists(d, f) == d.files[f].exists
UnifiedMcp == "~/.gemini/config/mcp_config.json"
LegacyMcp == "~/.gemini/antigravity/mcp_config.json"
PreferredMcpConfigPath(d) ==
    IF "~/.gemini/config/.migrated" \in d.dirs \/ Exists(d, UnifiedMcp) THEN UnifiedMcp ELSE LegacyMcp
OpencodeDir(loc) == IF loc = "global" THEN "~/.config/opencode/" ELSE "./"
OpencodePath(d, loc) ==
    IF ~Exists(d, OpencodeDir(loc) \o "opencode.jsonc") /\ Exists(d, OpencodeDir(loc) \o "opencode.json")
    THEN OpencodeDir(loc) \o "opencode.json" ELSE OpencodeDir(loc) \o "opencode.jsonc"
McpPath(d, t, loc) ==
    CASE t = "claude" -> IF loc = "global" THEN "~/.claude.json" ELSE "./.mcp.json"
      [] t = "cursor" -> In(loc, ".cursor/mcp.json")
      [] t = "codex" -> "~/.codex/config.toml"
      [] t = "opencode" -> OpencodePath(d, loc)
      [] t = "hermes" -> "~/.hermes/config.yaml"
      [] t = "gemini" -> In(loc, ".gemini/settings.json")
      [] t = "antigravity" -> PreferredMcpConfigPath(d)
      [] t = "kiro" -> In(loc, ".kiro/settings/mcp.json")
SettingsPath(loc) == In(loc, ".claude/settings.json")
InstructionsPath(t, loc) ==
    CASE t = "claude" -> In(loc, ".claude/CLAUDE.md")
      [] t = "codex" -> "~/.codex/AGENTS.md"
      [] t = "opencode" -> OpencodeDir(loc) \o "AGENTS.md"
      [] t = "gemini" -> In(loc, ".gemini/GEMINI.md")
RulesPath == "./.cursor/rules/codegraph.mdc"
SteeringPath(loc) == In(loc, ".kiro/steering/codegraph.md")

-----------------------------------------------------------------------------
(* shared.ts                                                               *)
Backed(d, f) == IF Exists(d, f) /\ ~d.files[f].ok THEN [d EXCEPT !.backups[f] = d.files[f]] ELSE d
Doc(d, f) == IF Exists(d, f) /\ d.files[f].ok THEN d.files[f].doc ELSE None
Write(d, f, content) == [d EXCEPT !.files[f] = content, !.dirs = @ \cup DirsOf(f)]
Unlink(d, f) == [d EXCEPT !.files[f] = Absent]

Section(lines) == LET At(m) == SelectInSeq(lines, LAMBDA x : x = m) IN
    IF At("start") # 0 /\ At("end") > At("start") THEN <<At("start"), At("end")>> ELSE <<>>
Cut(lines, first, last) == SubSeq(lines, 1, first - 1) \o SubSeq(lines, last + 1, Len(lines))
RemoveMarkedSection(d, f) ==
    LET s == Section(d.files[f].lines) IN
    IF ~Exists(d, f) \/ s = <<>> THEN d
    ELSE LET rest == Cut(d.files[f].lines, s[1], s[2]) IN
         IF rest = <<>> THEN Unlink(d, f) ELSE Write(d, f, Text(rest))

(* The entry of the server in a JSON file, under mcpServers or mcp.        *)
Key(t) == IF t = "opencode" THEN "mcp" ELSE "mcpServers"
Entry(t, loc) ==
    CASE t = "cursor" -> IF loc = "local" THEN "serve --path <cwd>" ELSE "serve --path ${workspaceFolder}"
      [] t = "opencode" -> "local, enabled"
      [] t = "antigravity" -> "no type"
      [] OTHER -> "stdio"
HasEntry(doc, key) == "codegraph" \in DOMAIN Field(doc, key, None)
WriteMcpEntryAlone(d, f, key, entry) ==    \* starts the servers from empty when there are some
    IF HasEntry(Doc(d, f), key) THEN d ELSE Write(Backed(d, f), f, Json(With(Doc(d, f), key, "codegraph" :> entry)))
WriteMcpEntry(d, f, key, entry) ==
    LET servers == Field(Doc(d, f), key, None) IN
    IF HasEntry(Doc(d, f), key) /\ servers["codegraph"] = entry THEN d
    ELSE Write(Backed(d, f), f, Json(With(Doc(d, f), key, With(servers, "codegraph", entry))))
Dropped(doc, key) == WithoutEmpty(With(doc, key, Without(doc[key], "codegraph")), key)
RemoveMcpEntry(d, f, key) ==
    IF HasEntry(Doc(d, f), key) THEN Write(d, f, Json(Dropped(Doc(d, f), key))) ELSE Backed(d, f)

-----------------------------------------------------------------------------
(* Claude Code.                                                            *)
Permissions == <<"mcp__codegraph__explore", "mcp__codegraph__search">>
OurPermissions == Range(Permissions) \cup {"mcp__codegraph__old"}    \* by prefix: an older list had another
WritePermissionsEntry(d, loc) ==
    LET f == SettingsPath(loc)
        permissions == Field(Doc(d, f), "permissions", None)
        allow == Field(permissions, "allow", <<>>)
        wanted == allow \o SelectSeq(Permissions, LAMBDA p : p \notin Range(allow)) IN
    IF allow = wanted /\ Exists(d, f) THEN d
    ELSE Write(Backed(d, f), f, Json(With(Doc(d, f), "permissions", With(permissions, "allow", wanted))))
RemovePermissions(d, loc) ==
    LET f == SettingsPath(loc)
        permissions == Field(Doc(d, f), "permissions", None)
        rest == SelectSeq(Field(permissions, "allow", <<>>), LAMBDA p : p \notin OurPermissions)
        kept == IF rest = <<>> THEN Without(permissions, "allow") ELSE With(permissions, "allow", rest) IN
    IF Range(Field(permissions, "allow", <<>>)) \cap OurPermissions = {} THEN Backed(d, f)
    ELSE Write(d, f, Json(WithoutEmpty(With(Doc(d, f), "permissions", kept), "permissions")))

IsLegacyCodegraphHookCommand(command) == command \in {"codegraph mark-dirty", "codegraph sync-if-dirty"}
CleanupLegacyHooks(d, loc) ==
    LET f == SettingsPath(loc)
        hooks == Field(Doc(d, f), "hooks", None)
        Kept(group) == SelectSeq(group, LAMBDA h : ~IsLegacyCodegraphHookCommand(h))
        Groups(event) == SelectSeq([i \in DOMAIN hooks[event] |-> Kept(hooks[event][i])], LAMBDA g : g # <<>>)
        kept == [event \in {e \in DOMAIN hooks : Groups(e) # <<>>} |-> Groups(event)] IN
    IF \A event \in DOMAIN hooks : \A i \in DOMAIN hooks[event] : Kept(hooks[event][i]) = hooks[event][i] THEN Backed(d, f)
    ELSE Write(d, f, Json(WithoutEmpty(With(Doc(d, f), "hooks", kept), "hooks")))

CleanupLegacyLocalMcp(d) ==
    LET f == "./.claude.json" IN
    IF ~HasEntry(Doc(d, f), "mcpServers") THEN Backed(d, f)
    ELSE LET rest == Dropped(Doc(d, f), "mcpServers") IN IF DOMAIN rest = {} THEN Unlink(d, f) ELSE Write(d, f, Json(rest))
LocalMcp(d, loc) == IF loc = "local" THEN CleanupLegacyLocalMcp(d) ELSE d

InstallClaude(d, loc, allow) ==
    LET entered == LocalMcp(WriteMcpEntry(d, McpPath(d, "claude", loc), "mcpServers", Entry("claude", loc)), loc)
        allowed == IF allow THEN WritePermissionsEntry(entered, loc) ELSE entered IN
    RemoveMarkedSection(CleanupLegacyHooks(allowed, loc), InstructionsPath("claude", loc))
UninstallClaude(d, loc) ==
    LET removed == LocalMcp(RemoveMcpEntry(d, McpPath(d, "claude", loc), "mcpServers"), loc) IN
    RemoveMarkedSection(CleanupLegacyHooks(RemovePermissions(removed, loc), loc), InstructionsPath("claude", loc))

-----------------------------------------------------------------------------
(* Cursor, Gemini, Kiro, Antigravity, opencode.                            *)
RemoveRulesEntry(d) ==
    LET lines == d.files[RulesPath].lines
        s == Section(lines)
        rest == IF s = <<>> THEN lines ELSE Cut(lines, s[1], s[2]) IN
    CASE ~Exists(d, RulesPath) \/ (s = <<>> /\ lines # <<"front matter">>) -> d
      [] rest \in {<<>>, <<"front matter">>} -> Unlink(d, RulesPath)
      [] OTHER -> Write(d, RulesPath, Text(rest))
RemoveSteeringEntry(d, loc) == IF Exists(d, SteeringPath(loc)) THEN Unlink(d, SteeringPath(loc)) ELSE d
CleanupLegacyEntry(d) == IF PreferredMcpConfigPath(d) = UnifiedMcp THEN RemoveMcpEntry(d, LegacyMcp, "mcpServers") ELSE d
RemoveCodegraphFromFiles(d) ==
    LET other == IF PreferredMcpConfigPath(d) = UnifiedMcp THEN LegacyMcp ELSE UnifiedMcp IN
    RemoveMcpEntry(RemoveMcpEntry(d, PreferredMcpConfigPath(d), "mcpServers"), other, "mcpServers")
WriteOpencodeEntry(d, loc) ==
    LET f == OpencodePath(d, loc)
        titled == With(Doc(d, f), "$schema", Field(Doc(d, f), "$schema", "opencode")) IN
    IF Field(Field(Doc(d, f), "mcp", None), "codegraph", "none") = Entry("opencode", loc) THEN d
    ELSE Write(d, f, Json(With(titled, "mcp", With(Field(titled, "mcp", None), "codegraph", Entry("opencode", loc)))))

-----------------------------------------------------------------------------
(* Codex: tables of a TOML file, found by the line of their header.        *)
TomlHeader == "[mcp_servers.codegraph]"
CodegraphBlock == <<TomlHeader, "command = codegraph">>
Headers == {TomlHeader, "[model]", "[profile]"}    \* an array of tables, [[hook]], is not one
Block(lines) ==
    LET first == SelectInSeq(lines, LAMBDA x : x = TomlHeader)
        next == SelectInSeq(SubSeq(lines, first + 1, Len(lines)), LAMBDA x : x \in Headers) IN
    IF first = 0 THEN <<>> ELSE <<first, IF next = 0 THEN Len(lines) ELSE first + next - 1>>
UpsertTomlTable(lines) ==
    LET b == Block(lines) IN
    IF b = <<>> THEN lines \o CodegraphBlock
    ELSE SubSeq(lines, 1, b[1] - 1) \o CodegraphBlock \o SubSeq(lines, b[2] + 1, Len(lines))
RemoveTomlTable(lines) == LET b == Block(lines) IN IF b = <<>> THEN lines ELSE Cut(lines, b[1], b[2])
Rewrite(d, f, lines) ==
    CASE lines = d.files[f].lines -> d
      [] lines = <<>> -> Unlink(d, f)
      [] OTHER -> Write(d, f, Text(lines))

-----------------------------------------------------------------------------
(* Hermes: a YAML file read line by line; a line is <<indent, text>>.      *)
Bare(line) == line[2] \in {"mcp_servers:", "platform_toolsets:", "display:", "codegraph:", "mine:", "cli:"}
Item(line) == line[2] \in {"- hermes-cli", "- mcp-codegraph", "- web"}
FirstIn(lines, first, last, P(_)) ==
    LET hits == {i \in first..last : P(lines[i])} IN IF hits = {} THEN 0 ELSE CHOOSE i \in hits : \A j \in hits : i <= j
RangeFrom(lines, start, last, P(_)) ==
    LET next == FirstIn(lines, start + 1, last, P) IN
    IF start = 0 THEN <<>> ELSE <<start, IF next = 0 THEN last ELSE next - 1>>
TopLevelRange(lines, key) ==
    RangeFrom(lines, FirstIn(lines, 1, Len(lines), LAMBDA l : l[2] = key), Len(lines), LAMBDA l : l[1] = 0 /\ Bare(l))
ChildStart(lines, parent, child) == FirstIn(lines, parent[1] + 1, parent[2], LAMBDA l : l = <<2, child>>)
ChildRange(lines, parent, child) ==
    IF parent = <<>> THEN <<>> ELSE RangeFrom(lines, ChildStart(lines, parent, child), parent[2], LAMBDA l : l[1] = 2)
ListChildBlock(lines, parent, child) ==
    IF parent = <<>> THEN <<>>
    ELSE RangeFrom(lines, ChildStart(lines, parent, child), parent[2], LAMBDA l : l[1] < 4 /\ ~(l[1] = 2 /\ Item(l)))
ItemIndent(lines, block) ==
    LET first == FirstIn(lines, block[1] + 1, block[2], LAMBDA l : l[1] > 0 /\ Item(l)) IN IF first = 0 THEN 4 ELSE lines[first][1]
InsertAfter(lines, i, new) == SubSeq(lines, 1, i) \o new \o SubSeq(lines, i + 1, Len(lines))

CodeGraphMcpChild == <<<<2, "codegraph:">>, <<4, "command: codegraph">>>>
UpsertCodeGraphMcpServer(lines) ==
    LET parent == TopLevelRange(lines, "mcp_servers:")
        child == ChildRange(lines, parent, "codegraph:") IN
    CASE parent = <<>> -> lines \o <<<<0, "mcp_servers:">>>> \o CodeGraphMcpChild
      [] parent # <<>> /\ child # <<>> -> InsertAfter(Cut(lines, child[1], child[2]), child[1] - 1, CodeGraphMcpChild)
      [] OTHER -> InsertAfter(lines, parent[2], CodeGraphMcpChild)
RemoveCodeGraphMcpServer(lines) ==
    LET child == ChildRange(lines, TopLevelRange(lines, "mcp_servers:"), "codegraph:") IN
    IF child = <<>> THEN lines ELSE Cut(lines, child[1], child[2])
HermesCli == <<<<2, "cli:">>, <<4, "- hermes-cli">>, <<4, "- mcp-codegraph">>>>
OurItems(lines, cli) == {i \in cli[1] + 1..cli[2] : lines[i][2] = "- mcp-codegraph"}
UpsertCodeGraphToolset(lines) ==
    LET parent == TopLevelRange(lines, "platform_toolsets:")
        cli == ListChildBlock(lines, parent, "cli:") IN
    CASE parent = <<>> -> lines \o <<<<0, "platform_toolsets:">>>> \o HermesCli
      [] parent # <<>> /\ cli = <<>> -> InsertAfter(lines, parent[2], HermesCli)
      [] OTHER -> IF OurItems(lines, cli) # {} THEN lines
                  ELSE InsertAfter(lines, cli[2], <<<<ItemIndent(lines, cli), "- mcp-codegraph">>>>)
RemoveCodeGraphToolset(lines) ==
    LET cli == ListChildBlock(lines, TopLevelRange(lines, "platform_toolsets:"), "cli:") IN
    IF cli = <<>> THEN lines
    ELSE FoldLeft(LAMBDA kept, i : IF i \in OurItems(lines, cli) THEN kept ELSE Append(kept, lines[i]), <<>>, [i \in DOMAIN lines |-> i])

-----------------------------------------------------------------------------
(* One agent.                                                              *)
Entered(d, t, loc) == WriteMcpEntry(d, McpPath(d, t, loc), Key(t), Entry(t, loc))
Left(d, t, loc) == RemoveMcpEntry(d, McpPath(d, t, loc), Key(t))
Lines(d, t) == d.files[McpPath(d, t, "global")].lines

InstallCursor(d, loc) == IF loc = "local" THEN RemoveRulesEntry(Entered(d, "cursor", loc)) ELSE Entered(d, "cursor", loc)
UninstallCursor(d, loc) == IF loc = "local" THEN RemoveRulesEntry(Left(d, "cursor", loc)) ELSE Left(d, "cursor", loc)
InstallCodex(d) ==
    RemoveMarkedSection(Rewrite(d, "~/.codex/config.toml", UpsertTomlTable(Lines(d, "codex"))), InstructionsPath("codex", "global"))
UninstallCodex(d) ==
    RemoveMarkedSection(Rewrite(d, "~/.codex/config.toml", RemoveTomlTable(Lines(d, "codex"))), InstructionsPath("codex", "global"))
InstallOpencode(d, loc) == RemoveMarkedSection(WriteOpencodeEntry(d, loc), InstructionsPath("opencode", loc))
UninstallOpencode(d, loc) == RemoveMarkedSection(Left(d, "opencode", loc), InstructionsPath("opencode", loc))
InstallHermes(d) == Rewrite(d, "~/.hermes/config.yaml", UpsertCodeGraphToolset(UpsertCodeGraphMcpServer(Lines(d, "hermes"))))
UninstallHermes(d) == Rewrite(d, "~/.hermes/config.yaml", RemoveCodeGraphToolset(RemoveCodeGraphMcpServer(Lines(d, "hermes"))))
InstallGemini(d, loc) == RemoveMarkedSection(Entered(d, "gemini", loc), InstructionsPath("gemini", loc))
UninstallGemini(d, loc) == RemoveMarkedSection(Left(d, "gemini", loc), InstructionsPath("gemini", loc))
InstallAntigravity(d) == CleanupLegacyEntry(Entered(d, "antigravity", "global"))
InstallKiro(d, loc) == RemoveSteeringEntry(Entered(d, "kiro", loc), loc)
UninstallKiro(d, loc) == RemoveSteeringEntry(Left(d, "kiro", loc), loc)

InstallAgent(d, t, loc, allow) ==
    CASE t = "claude" -> InstallClaude(d, loc, allow)
      [] t = "cursor" -> InstallCursor(d, loc)
      [] t = "codex" -> InstallCodex(d)
      [] t = "opencode" -> InstallOpencode(d, loc)
      [] t = "hermes" -> InstallHermes(d)
      [] t = "gemini" -> InstallGemini(d, loc)
      [] t = "antigravity" -> InstallAntigravity(d)
      [] t = "kiro" -> InstallKiro(d, loc)
UninstallAgent(d, t, loc) ==
    CASE t = "claude" -> UninstallClaude(d, loc)
      [] t = "cursor" -> UninstallCursor(d, loc)
      [] t = "codex" -> UninstallCodex(d)
      [] t = "opencode" -> UninstallOpencode(d, loc)
      [] t = "hermes" -> UninstallHermes(d)
      [] t = "gemini" -> UninstallGemini(d, loc)
      [] t = "antigravity" -> RemoveCodegraphFromFiles(d)
      [] t = "kiro" -> UninstallKiro(d, loc)

(* Detection; reading a JSON file that does not parse copies it.           *)
ConfigDirs(t, loc) ==
    CASE t = "antigravity" -> {"~/.gemini/config", "~/.gemini/antigravity"}
      [] t = "opencode" -> IF loc = "global" THEN {"~/.config/opencode"} ELSE {}
      [] OTHER -> {In(loc, "." \o t)}
Installed(d, t, loc) ==
    /\ SupportsLocation(t, loc)
    /\ ConfigDirs(t, loc) \cap d.dirs # {} \/ Exists(d, McpPath(d, t, loc))
AlreadyConfigured(d, t, loc) ==
    CASE t = "codex" -> TomlHeader \in Range(Lines(d, t))
      [] t = "hermes" -> ChildRange(Lines(d, t), TopLevelRange(Lines(d, t), "mcp_servers:"), "codegraph:") # <<>>
      [] OTHER -> HasEntry(Doc(d, McpPath(d, t, loc)), Key(t))
Detected(d, loc) ==
    FoldLeft(LAMBDA e, t : IF SupportsLocation(t, loc) /\ t \notin {"codex", "opencode", "hermes"} THEN Backed(e, McpPath(e, t, loc)) ELSE e,
             d, Agents)
ResolveAuto(d, loc) ==
    LET found == SelectSeq(Agents, LAMBDA t : Installed(d, t, loc)) IN IF found = <<>> THEN <<"claude">> ELSE found

-----------------------------------------------------------------------------
(* Git hooks: our lines lie between two markers.                           *)
SyncHooks == {"./.git/hooks/post-commit", "./.git/hooks/post-merge"}
MarkerBlock == <<"begin", "codegraph sync", "end">>
StripMarkerBlock(lines) ==
    FoldLeft(LAMBDA s, l : CASE l = "begin" -> [s EXCEPT !.inBlock = TRUE]
                             [] l = "end" -> [s EXCEPT !.inBlock = FALSE]
                             [] OTHER -> IF s.inBlock THEN s ELSE [s EXCEPT !.kept = Append(@, l)],
             [kept |-> <<>>, inBlock |-> FALSE], lines).kept
IsEffectivelyEmpty(lines) == Range(lines) \subseteq {"#!/bin/sh"}
IsGitRepo(d) == "./.git" \in d.dirs
IsSyncHookInstalled(d) == \E h \in SyncHooks : "begin" \in Range(d.files[h].lines)
InstallGitSyncHook(d) ==
    LET Hook(h) == LET base == StripMarkerBlock(d.files[h].lines) IN (IF base = <<>> THEN <<"#!/bin/sh">> ELSE base) \o MarkerBlock IN
    [d EXCEPT !.files = [f \in DOMAIN @ |-> IF f \in SyncHooks THEN Text(Hook(f)) ELSE @[f]]]
RemoveGitSyncHook(d) ==
    LET Rest(h) == StripMarkerBlock(d.files[h].lines)
        Kept(h) == CASE "begin" \notin Range(d.files[h].lines) -> d.files[h]
                     [] IsEffectivelyEmpty(Rest(h)) -> Absent
                     [] OTHER -> Text(Rest(h)) IN
    IF ~IsGitRepo(d) THEN d ELSE [d EXCEPT !.files = [f \in DOMAIN @ |-> IF f \in SyncHooks THEN Kept(f) ELSE @[f]]]

WatchDisabledReason(env) == "NO_WATCH" \in env \/ ("FORCE_WATCH" \notin env /\ "slow drive" \in env)
OfferWatchFallback(d, env, agreed) ==
    IF WatchDisabledReason(env) /\ IsGitRepo(d) /\ ~IsSyncHookInstalled(d) /\ agreed THEN InstallGitSyncHook(d) ELSE d

-----------------------------------------------------------------------------
Idle == [op |-> "idle", loc |-> "global", allow |-> FALSE, left |-> <<>>, done |-> {}]
InitInstaller == disk \in Disks /\ before = disk.files /\ run = Idle /\ runs = 0

Over == run.left = <<>>
Begin(op, loc, allow, agents) ==
    /\ run' = [op |-> op, loc |-> loc, allow |-> allow, left |-> agents, done |-> {}]
    /\ runs' = runs + 1
    /\ UNCHANGED before

(* Where to install is asked after the agents, which were looked for in    *)
(* the home directory unless the command line says otherwise.              *)
RunInstaller ==
    /\ Over /\ runs < MaxRuns
    /\ \E loc \in {"global", "local"}, allow \in BOOLEAN :
       \/ \E agents \in {<<Agents[i]>> : i \in DOMAIN Agents} \cup {Agents} :
             Begin("install", loc, allow, agents) /\ disk' \in {disk, Detected(disk, "global")}
       \/ \E asked \in {loc, "global"} :
             Begin("install", loc, allow, ResolveAuto(disk, asked)) /\ disk' = Detected(disk, asked)
RunUninstaller ==
    /\ Over /\ runs < MaxRuns
    /\ \E loc \in {"global", "local"} :
       \/ \E agents \in {<<Agents[i]>> : i \in DOMAIN Agents} \cup {Agents} : Begin("uninstall", loc, FALSE, agents) /\ UNCHANGED disk
       \/ Begin("uninstall", loc, FALSE, ResolveAuto(disk, loc)) /\ disk' = Detected(disk, loc)

Advance(done) == run' = [run EXCEPT !.left = Tail(@), !.done = @ \cup done] /\ UNCHANGED <<before, runs>>
InstallNext ==
    /\ ~Over /\ run.op = "install"
    /\ LET t == Head(run.left) IN
       IF SupportsLocation(t, run.loc) THEN disk' = InstallAgent(disk, t, run.loc, run.allow) /\ Advance({t})
       ELSE UNCHANGED disk /\ Advance({})
UninstallNext ==
    /\ ~Over /\ run.op = "uninstall"
    /\ LET t == Head(run.left) IN
       IF SupportsLocation(t, run.loc) THEN disk' = UninstallAgent(disk, t, run.loc) /\ Advance({t})
       ELSE UNCHANGED disk /\ Advance({})
InitializeLocalProject ==
    /\ Over /\ run.op = "install" /\ run.loc = "local"
    /\ \E env \in SUBSET {"NO_WATCH", "FORCE_WATCH", "slow drive"}, agreed \in BOOLEAN : disk' = OfferWatchFallback(disk, env, agreed)
    /\ UNCHANGED <<before, run, runs>>
Uninit == disk' = RemoveGitSyncHook(disk) /\ UNCHANGED <<before, run, runs>>
(* A write that fails, a prompt cancelled or a signal ends the run.        *)
CutShort == ~Over /\ run' = [run EXCEPT !.left = <<>>] /\ UNCHANGED <<disk, before, runs>>

StepInstaller ==
    \/ RunInstaller \/ RunUninstaller
    \/ InstallNext \/ UninstallNext
    \/ InitializeLocalProject \/ Uninit
    \/ CutShort
SpecInstaller == InitInstaller /\ [][StepInstaller]_installerVars

-----------------------------------------------------------------------------
(* What is the user's: everything that is not an entry, a permission, a    *)
(* hook, a section, a table or a list item of ours.                        *)
OurYaml == {"mcp_servers:", "platform_toolsets:", "cli:", "codegraph:", "command: codegraph", "command: old", "- hermes-cli", "- mcp-codegraph"}
OurToml == {TomlHeader, "command = codegraph", "command = old"}
Yaml == "~/.hermes/config.yaml"
Toml == "~/.codex/config.toml"
(* "Not array-of-tables" (toml.ts:13-16), although "everything outside     *)
(* that block is preserved verbatim" (10-11): an element of one after our  *)
(* table is cut with it, and so is, or is displaced, a top-level scalar    *)
(* after the servers in the YAML file.  Of such files only the lines above *)
(* ours are said to survive.                                               *)
OneScalarAfter(lines) ==
    \E i, j \in DOMAIN lines : i < j /\ lines[i][2] \in {"mcp_servers:", "platform_toolsets:"} /\ lines[j][1] = 0 /\ ~Bare(lines[j])
OneArrayAfter(lines) == \E i, j \in DOMAIN lines : i < j /\ lines[i] = TomlHeader /\ lines[j] = "[[hook]]"
NotToldApart(f) == (f = Yaml /\ OneScalarAfter(before[f].lines)) \/ (f = Toml /\ OneArrayAfter(before[f].lines))

OwnLines(f, lines) ==
    CASE f = Yaml -> SelectSeq(lines, LAMBDA l : l[2] \notin OurYaml)
      [] f = Toml -> SelectSeq(lines, LAMBDA l : l \notin OurToml)
      [] f \in SyncHooks -> SelectSeq(StripMarkerBlock(lines), LAMBDA l : l # "#!/bin/sh")
      [] f = RulesPath -> SelectSeq(lines, LAMBDA l : l \notin {"front matter", "start", "usage", "end"})
      [] OTHER -> SelectSeq(lines, LAMBDA l : l \notin {"start", "usage", "end"})
OwnServers(doc) == [key \in {"mcpServers", "mcp"} |-> Without(Field(doc, key, None), "codegraph")]
OwnPermissions(doc) ==
    LET p == Field(doc, "permissions", None) IN
    <<SelectSeq(Field(p, "allow", <<>>), LAMBDA x : x \notin OurPermissions), Without(p, "allow")>>
OwnHooks(doc) ==
    LET hooks == Field(doc, "hooks", None) IN
    {<<event, h>> : event \in DOMAIN hooks, h \in {"lint", "test"}} \cap
        UNION {{event} \X UNION {Range(hooks[event][i]) : i \in DOMAIN hooks[event]} : event \in DOMAIN hooks}
OwnKeys(doc) == Restrict(doc, DOMAIN doc \ {"mcpServers", "mcp", "permissions", "hooks", "$schema"})
Own(doc) == <<OwnServers(doc), OwnPermissions(doc), OwnHooks(doc), OwnKeys(doc)>>

IsJson(f) == f \notin {Yaml, Toml, RulesPath} \cup SyncHooks \cup {InstructionsPath(t, loc) : t \in {"claude", "codex", "opencode", "gemini"}, loc \in {"global", "local"}}
Kept(f) ==
    LET was == before[f]
        now == disk.files[f] IN
    CASE was.exists /\ was.ok -> Own(now.doc) = Own(was.doc)
      [] was.exists /\ ~was.ok /\ IsJson(f) -> now = was \/ disk.backups[f] = was
      [] OTHER -> was.exists => OwnLines(f, now.lines) = OwnLines(f, was.lines)
OursIn(f, line) == IF f = Yaml THEN line[2] \in {"mcp_servers:", "platform_toolsets:"} ELSE line = TomlHeader
KeptAbove(f) ==    \* a text: the lines above the first of ours
    LET lines == before[f].lines
        above == SubSeq(lines, 1, SelectInSeq(lines, LAMBDA l : OursIn(f, l)) - 1) IN
    IsPrefix(OwnLines(f, above), OwnLines(f, disk.files[f].lines))
SteeringPaths == {SteeringPath("global"), SteeringPath("local")}    \* the whole file is ours by its name

(* Whatever is installed and uninstalled, in any order and however often a *)
(* run is cut short, no server, permission, hook, key, section, table or   *)
(* line of the user's own is lost or reordered, and a document that does   *)
(* not parse is still there or in its backup; only what follows ours and   *)
(* is NotToldApart may go (installer/targets/shared.ts, claude.ts,         *)
(* toml.ts, hermes.ts).                                                    *)
OwnSettingsSurvive ==
    \A f \in DOMAIN before \ SteeringPaths : IF NotToldApart(f) THEN KeptAbove(f) ELSE Kept(f)

NoTrace(t, loc) ==
    /\ t \in {"claude", "codex", "opencode", "gemini"} => Section(disk.files[InstructionsPath(t, loc)].lines) = <<>>
    /\ t = "claude" => Range(Field(Field(Doc(disk, SettingsPath(loc)), "permissions", None), "allow", <<>>)) \cap OurPermissions = {}
    /\ t = "antigravity" => ~HasEntry(Doc(disk, UnifiedMcp), "mcpServers") /\ ~HasEntry(Doc(disk, LegacyMcp), "mcpServers")
    /\ t = "hermes" => \A i \in DOMAIN Lines(disk, t) : Lines(disk, t)[i][2] \notin {"codegraph:", "- mcp-codegraph"}
    /\ ~AlreadyConfigured(disk, t, loc)
ParentOf(lines, i) == lines[CHOOSE j \in 1..i - 1 : lines[j][1] = 0 /\ \A k \in j + 1..i - 1 : lines[k][1] > 0][2]
Configured(t, loc) ==
    CASE t = "codex" -> Block(Lines(disk, t)) # <<>> /\ Range(CodegraphBlock) \subseteq Range(Lines(disk, t))
      [] t = "hermes" -> \E i, j \in DOMAIN Lines(disk, t) :
            /\ Lines(disk, t)[i] = <<2, "codegraph:">> /\ ParentOf(Lines(disk, t), i) = "mcp_servers:"
            /\ Lines(disk, t)[j][2] = "- mcp-codegraph" /\ ParentOf(Lines(disk, t), j) = "platform_toolsets:"
      [] t = "antigravity" -> Cardinality({f \in {UnifiedMcp, LegacyMcp} : HasEntry(Doc(disk, f), "mcpServers")}) = 1
      [] OTHER -> /\ Field(Field(Doc(disk, McpPath(disk, t, loc)), Key(t), None), "codegraph", "none") = Entry(t, loc)
                  /\ t = "claude" /\ run.allow => Range(Permissions) \subseteq Range(Doc(disk, SettingsPath(loc))["permissions"]["allow"])

(* An agent a run has passed is set up, or has no trace of us, and stays   *)
(* so while the run goes on to the others, although some share a           *)
(* directory, and an earlier version or an interrupted run left its own    *)
(* entries (installer/index.ts:185-204, uninstallTargets).                 *)
RunsTakeEffect ==
    \A t \in run.done :
        \/ SupportsLocation(t, run.loc) /\ NotToldApart(McpPath(disk, t, run.loc))
        \/ run.op = "install" /\ Configured(t, run.loc)
        \/ run.op = "uninstall" /\ NoTrace(t, run.loc)
=============================================================================

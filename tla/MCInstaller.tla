----------------------------- MODULE MCInstaller ------------------------------
(***************************************************************************)
(* Instances of Installer for TLC.                                         *)
(***************************************************************************)
EXTENDS Installer

NoFiles == [conf |-> [f \in ConfPaths |-> [user |-> FALSE, valid |-> TRUE,
                                           v1 |-> NoEntry, v2 |-> NoEntry]],
            text |-> [f \in TextPaths |-> "none"],
            own |-> [f \in OwnPaths |-> Nobodys],
            skill |-> [d \in SkillDirs |-> [md |-> "none", stamp |-> FALSE]],
            settings |-> [user |-> TRUE, valid |-> TRUE, allow |-> FALSE, hook |-> FALSE,
                         mentions |-> {}]]

\* Files that a hand edit left unreadable.
Broken == [NoFiles EXCEPT !.conf["opencode.json"] = [@ EXCEPT !.user = TRUE, !.valid = FALSE],
                          !.text["AGENTS.md"] = "unbalanced",
                          !.settings.valid = FALSE]
\* CLAUDE.md is a link to the repository's AGENTS.md.
OneLink == {<<"CLAUDE.md", "AGENTS.md">>}

Line(op, targets, parts, refresh, model, format, protect) ==
  [op |-> op, targets |-> targets, parts |-> parts, refresh |-> refresh,
   model |-> model, format |-> format, protect |-> protect]

\* memdag install --target t, memdag install --refresh, memdag uninstall --target t
InstallAll(targets, format) == Line("install", targets, AllParts, FALSE, FALSE, format, TRUE)
RefreshAll(targets)         == Line("install", targets, AllParts, TRUE, FALSE, "auto", TRUE)
UninstallAll(targets)       == Line("uninstall", targets, AllParts, FALSE, FALSE, "auto", TRUE)
\* memdag mcp install, memdag work uninstall
McpOnly(t)       == Line("install", {t}, {"mcp"}, FALSE, FALSE, "auto", TRUE)
WorkUninstall(t) == Line("uninstall", {t}, {"worker", "instructions", "permissions"},
                         FALSE, FALSE, "auto", FALSE)

MCTargets  == {"claude_code", "opencode", "codex", "kiro"}
MCCommands == {InstallAll({"claude_code"}, "auto"), InstallAll({"opencode"}, "v1"),
               InstallAll({"opencode", "codex"}, "auto"), McpOnly("opencode"),
               InstallAll({"kiro"}, "auto"), RefreshAll(MCTargets),
               UninstallAll({"opencode", "kiro"}), UninstallAll({"codex", "claude_code"})}
MCBegin    == {NoFiles, Broken}
SharedCommands == {InstallAll({"opencode"}, "auto"), InstallAll({"codex"}, "auto"),
                   WorkUninstall("codex")}
OnlyNoFiles    == {NoFiles}
=============================================================================

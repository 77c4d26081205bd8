----------------------------- MODULE MCLintRun -----------------------------
(* Two inputs of supported formats and one of an unknown format, one       *)
(* built-in rule of each relevant severity and a declarative rule.         *)
EXTENDS LintRun

MCPaths     == 1..3
MCSupported == {1, 3}
MCBuiltin   == {"small", "invalid"}
MCDeclared  == {"crs"}
MCRuleId    == [small |-> "AL007", invalid |-> "AL016", crs |-> "missing_crs"]
MCSeverity  == [small |-> 2, invalid |-> 3, crs |-> 1]
MCContents  == {{}, {"small", "crs"}, {"invalid"}}
MCRuleFiles == {{"crs"}}
MCConfigs   ==
    {[only |-> {}, disabled |-> {}, fail_on |-> 2],
     [only |-> {"AL007", "AL016"}, disabled |-> {"AL016"}, fail_on |-> 3]}

Base == [front |-> "native", output |-> "text", named |-> FALSE, config |-> TRUE,
         only |-> NoOption, disable |-> {}, fail_on |-> NoOption]

MCArgs ==
    {Base,
     [Base EXCEPT !.named = TRUE, !.config = FALSE, !.only = {"AL016"}],
     [Base EXCEPT !.front = "python", !.only = {"AL007"}, !.disable = {"missing_crs"}],
     [Base EXCEPT !.front = "python", !.output = "json", !.only = {}, !.fail_on = 1],
     [Base EXCEPT !.front = "python", !.named = TRUE, !.output = "sarif",
                  !.disable = {"AL007"}, !.fail_on = 4]}

MCPlainArgs  == {[Base EXCEPT !.front = f, !.output = "json"] : f \in {"native", "python"}}
=============================================================================

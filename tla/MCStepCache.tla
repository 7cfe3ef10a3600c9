----------------------------- MODULE MCStepCache -----------------------------
(* Two denoisers that want different warmups, as Wan 2.2 has; a number is only
   ever compared, so a string stands for it. *)
EXTENDS StepCache

MCPreset ==
  << [residual_diff_threshold |-> "0.12", max_warmup_steps |-> "4"],
     [max_warmup_steps |-> "2", enable_taylorseer |-> "on"] >>

MCDefault ==
  [f \in Fields |-> CASE f = "residual_diff_threshold" -> "0.24"
                      [] f = "max_warmup_steps" -> "4"
                      [] OTHER -> "none"]

MCNumbers ==
  [f \in Fields |-> CASE f = "residual_diff_threshold" -> {"0.12", "0.24"}
                      [] f = "max_warmup_steps" -> {"2", "4"}
                      [] OTHER -> {}]

Group(threshold, warmup, taylorseer, separate) ==
  [f \in Fields |-> CASE f = "residual_diff_threshold" -> threshold
                      [] f = "max_warmup_steps" -> warmup
                      [] f = "enable_taylorseer" -> taylorseer
                      [] OTHER -> separate]

(* What the model shows, and ways to leave it by one widget or more: one of them by
   the widget alone that a warm worker does not compare. *)
MCGroups ==
  { Group("0.12", "4", "default", "default"), Group("0.12", "4", "default", "true"),
    Group("0.24", "4", "default", "default"), Group("0.12", "2", "true", "default"),
    Group("0.24", "2", "false", "false"), Group("0.24", "4", "true", "true") }

MCPipelines == {{}, {1}, {1, 2}}
=============================================================================

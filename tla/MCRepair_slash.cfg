SPECIFICATION Spec
CONSTANTS
  Callers <- SlashCaller
  MAX_NESTING = 3
INVARIANT LoneSlashSkipsItself

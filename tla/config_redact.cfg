CONSTANTS
    Keys <- MCKeys
    SensitiveKeys <- MCSensitiveKeys
    Configs <- MCConfigs
    Plain = Plain
    Tokened = Tokened
    Num = Num
    Redacted = Redacted
    RedactedFrom = RedactedFrom
    None = None
SPECIFICATION Spec
\* redact_config returns; nothing follows.
CHECK_DEADLOCK FALSE
INVARIANT RedactedConfigHidesSecrets

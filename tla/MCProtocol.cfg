SPECIFICATION Spec
INVARIANTS
    EveryAcceptedCommandDecodes
    AlarmPairNeverAliases
    FramesCarryTheItems
    AccessorsReadWhatWasWritten
    OneAccessorAnswers
    DecodersFillTheirStructs
    EncodedFramesAreSound
    EveryReplyPrinted
    ScheduleReadsEverythingOnce

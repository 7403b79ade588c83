SPECIFICATION FairSpec
CONSTANTS
  MaxGenerated = 4
INVARIANTS BanksAgree TornAtMostOnce LoadedRecordComplete OneIdentity ReplyIsAKey
PROPERTIES DurableOnceSettled EventuallyPersistent

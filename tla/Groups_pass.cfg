CONSTANTS
  Images <- MCImages
  Contents = {"a", "b"}
  LogMisses = {125, 243}
SPECIFICATION DescSpec
INVARIANTS InodesApart DescriptorsApart AllCounted

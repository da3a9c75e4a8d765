CONSTANTS
  EditCases <- MCEditCases
  HealCases <- MCHealCases
  Looser <- MCLooser
  PatchLines <- MCPatchLines
  MaxLines = 6
  FilesToPatch <- MCFilesToPatch
  Documents <- MCDocuments
  SchemaItems = 3
  SchemaKeys = 2
  PatchOps <- MCPatchOps
  Searches <- MCSearches
  ScaffoldLimits <- MCScaffoldLimits
  Sources <- MCSources
  ArchiveNames <- MCArchiveNames
  TarMembers <- MCTarMembers
  ZipMembers <- MCZipMembers
  Block = 2
  ShortMax = 2
  PrefixMax = 2
  Marker = 800
  MaxFile = 8
  MaxTotal = 11
  TextFiles <- MCTextFiles
  Lists <- MCLists
  Trees <- MCTrees
  Outputs <- MCOutputs
  Limits = {1, 2, 9}
  MaxPages = 12
  MaxBytes = 8
  Prefix = 2
  Lower <- MCLowerAll
  Squeezed <- MCSqueezed
  Words <- MCWords
  Catalogs <- MCCatalogs
  Providers <- ProviderNames
  References <- MCReferences
  Published <- MCPublished
  Variants <- VariantNames
  TestTrees <- MCTestTrees
  Printed <- MCPrinted
  Harnesses = {"node", "bun", "jest", "vitest", "mocha"}
  Folders <- MCFolders
  TestFiles <- MCTestFiles
  FileOrder <- MCFileOrder
SPECIFICATION Spec
CHECK_DEADLOCK FALSE
INVARIANTS
  TextsInPlace
  JsonAsStandard
  ReadsBack
  PagesComplete
  ChosenNotGuessed
  TestsAsReported

\* Two configs, valid or not, one over the other, and any executables.
SPECIFICATION Spec
CONSTANTS
  Known <- SomeKnown
  Slugs <- SomeSlugs
  LanguageOf <- SlugLanguage
  NoLanguage = "none"
  Providers <- SomeProviders
  Binaries <- SomeBinaries
  Args <- SomeArgs
  NoArgs = "none"
  Defaults <- CodeDefaults
  Discovery <- CodeDiscovery
  Overrides <- SomeOverrides
  MaxEntries = 3
  MaxConfigs = 2
INVARIANTS NothingLost ChoiceWins DiscoveredResolves AdviceHolds

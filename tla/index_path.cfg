SPECIFICATION CatalogSpec
CONSTANTS
  Urls <- MCUrls
  Pages <- MCPages
  Shop <- MCShop
  PageSize = 2
  CacheEvery = 1
  MaxKills = 0
  Interval = 2
  LoadDir = load_dir
  SaveDir = save_dir
INVARIANT
  SavedIndexIsLoaded

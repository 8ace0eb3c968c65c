SPECIFICATION Spec
CONSTANTS
    Ids = {1, 2}
    Names = {"old", "new"}
    Catalogues <- MCCatalogues
INVARIANTS
    TypeOK
    WishesKept
    RunAgainChangesNothing

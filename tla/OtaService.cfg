\* A client that reads the characteristics in any order, over reconnections and
\* resets, for flash maps with up to six images.
SPECIFICATION Spec
CONSTANTS
    Ids <- MCIds
    OTA_HEADER = 2
    Page = 2
    Layouts <- MCLayouts
    Version <- MCVersion
    Bytes <- MCBytes
    Behind <- MCBehind
INVARIANTS
    TypeOK
    PagesRight
    InfoAgrees

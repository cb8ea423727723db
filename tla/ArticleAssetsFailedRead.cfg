\* One picture and one request.
CONSTANTS
    Images = {p1}
    Editors = {e1}
SPECIFICATION ArticleSpec
INVARIANT NoBrokenPictures
CHECK_DEADLOCK FALSE

CONSTANTS
    plex = plex
    media = media
    Name <- MCName
    Worker = {w1, w2}
    Source <- MCSource
    Copied <- MCCopied
    png = png
    svg = svg
    Image <- MCImage
    Fallback <- MCFallback
SYMMETRY Symmetry
SPECIFICATION Spec
INVARIANT TypeOK
INVARIANT FilesMatch
INVARIANT WorkersMatch
PROPERTY NothingLate

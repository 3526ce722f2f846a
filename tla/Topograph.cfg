SPECIFICATION Spec
CONSTANTS
    Entities = {1, 2}
    Attrs = {1}
    Keywords = {k1, k2}
    Types = {"string"}
    Holders = {h1, h2}
    Vals = {v1, v2}
    MaxValues = 2
SYMMETRY Symmetry
INVARIANTS NamesSound AttributesMatch ViewsExact DataKept

\* Inputs of every length up to one byte past the layout, over three byte values.
SPECIFICATION Spec
CONSTANTS
    Generators = {"rebuild_args", "config"}
    Bytes = {0, 130, 143}
    MaxDim = 2
    Pool = 0
PROPERTIES ByteIsLocal ZerosArePadding

SPECIFICATION WalkSpec
CONSTANTS
    None = None
    Modules = {Top, Sub, Leaf}
    TopModule = Top
    Sub = Sub
    Leaf = Leaf
    Library = Library
    TopEvents = 4
    SubEvents = 2
    LeafNodes = 3
    Designs <- MCDesigns
INVARIANT InstancesFound
PROPERTY WalkEnds

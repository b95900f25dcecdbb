SPECIFICATION Spec
CONSTANT NumBlocks = 5
INVARIANT LinksAgree
PROPERTY ImplementsQueue
